---- MODULE Spec2Model ----
(***************************************************************************)
(* VitaFit backend (backend/main.py): the exercise -> diet -> report       *)
(* pipeline over the "predictions" collection, with the process-wide model *)
(* and encoder globals set by startup_all.                                 *)
(*                                                                         *)
(* Representation of Python values:                                        *)
(*   None            the record None                                       *)
(*   dict            a record/function over its keys; {} is EmptyDict      *)
(*   LabelEncoder    [classes |-> <<c1, ..., cn>>], the sorted classes_;   *)
(*                   the code of a class is its 0-based position           *)
(*   model artifact  [raises |-> BOOLEAN]: an opaque predictor, which      *)
(*                   either answers or raises on predict                   *)
(*   float           an integer number of thousandths (height, weight,     *)
(*                   regressor outputs), hundredths after round(x, 2)      *)
(***************************************************************************)
EXTENDS Integers, Sequences, FiniteSets, TLC

VARIABLES
    phase,                \* "init" (startup_all not run) | "serving" | "failed" (startup_all raised)
    db,                   \* main.py global db
    multi_clf,            \* main.py globals: exercise classifier, regressor, encoders
    multi_reg,
    label_encoders,
    diet_regressor,       \* main.py globals: diet model and its encoders
    diet_label_encoders,
    predictions,          \* the documents of db.predictions, in insertion order
    last,                 \* the response to the last request, with what the request did to the store
    exercised,            \* history: the session ids passed to predict_exercise so far
    probe,                \* input and result of a helper applied on its own
    requests,             \* the requests in flight when several workers serve one collection
    mongodb_client,       \* database/mongodb_client.py globals mongo_client and db
    image_classifier      \* the ImageClassifier object: whether made, and its yolo_model

vars == <<phase, db, multi_clf, multi_reg, label_encoders, diet_regressor,
          diet_label_encoders, predictions, last, exercised, probe, requests,
          mongodb_client, image_classifier>>

globals == <<db, multi_clf, multi_reg, label_encoders, diet_regressor, diet_label_encoders>>

\* what the request handlers of main.py and the helpers never touch
others == <<requests, mongodb_client, image_classifier>>

----------------------------------------------------------------------------
(* Bounds *)

\* classifier outputs (encoded labels) range over 0..MaxCode
MaxCode == 0

\* frequencies handed to infer_activity_level on its own range over 0..MaxFrequency
MaxFrequency == 7

SessionIds == {"s1", "s2"}

----------------------------------------------------------------------------
(* Python values *)

None == [none |-> TRUE]

\* mongodb_client.py as imported: mongo_client = None, db = None, and no
\* MongoClient made so far
NotConnected == [mongo_client |-> [none |-> TRUE], db |-> [none |-> TRUE], clients |-> <<>>]

\* no ImageClassifier has been constructed
NoClassifier == [constructed |-> FALSE]

EmptyDict == [k \in {} |-> TRUE]

Has(d, k) == k \in DOMAIN d

\* dict.get(k, default)
Get(d, k, default) == IF Has(d, k) THEN d[k] ELSE default

\* bool(x) of None, of a dict, of any other object
Truthy(x) == x # None /\ DOMAIN x # {}

\* {**d, **s}
Merge(d, s) == [k \in DOMAIN d \cup DOMAIN s |-> IF k \in DOMAIN s THEN s[k] ELSE d[k]]

\* str.lower() on the strings that occur
Lower(s) ==
    CASE s = "High" -> "high"
      [] s = "HIGH" -> "high"
      [] s = "Medium" -> "medium"
      [] s = "Low" -> "low"
      [] s = "Male" -> "male"
      [] s = "Female" -> "female"
      [] OTHER -> s

\* round(x) of a float given in tenths: Python rounds half to even
RoundHalfEven(tenths) ==
    LET q == tenths \div 10
        r == tenths % 10
    IN  IF r < 5 THEN q
        ELSE IF r > 5 THEN q + 1
        ELSE IF q % 2 = 0 THEN q ELSE q + 1

\* round(x, 2) of a float given in thousandths, as hundredths
Round2(thousandths) ==
    LET q == thousandths \div 10
        r == thousandths % 10
    IN  IF r < 5 THEN q
        ELSE IF r > 5 THEN q + 1
        ELSE IF q % 2 = 0 THEN q ELSE q + 1

----------------------------------------------------------------------------
(* sklearn LabelEncoder *)

LabelEncoder(cs) == [classes |-> cs]

Knows(le, v) == \E i \in 1..Len(le.classes) : le.classes[i] = v

\* le.transform([v])[0]; raises ValueError unless Knows(le, v)
Transform(le, v) == (CHOOSE i \in 1..Len(le.classes) : le.classes[i] = v) - 1

InRange(le, code) == code >= 0 /\ code < Len(le.classes)

\* le.inverse_transform([code])[0]; raises ValueError unless InRange(le, code)
InverseTransform(le, code) == le.classes[code + 1]

----------------------------------------------------------------------------
(* Helper functions of main.py *)

\* the rule with the first threshold exclusive
infer_activity_level_above_five(freq, intensity) ==
    IF freq > 5 /\ Lower(intensity) = "high" THEN "very active"
    ELSE IF freq >= 3 /\ Lower(intensity) \in {"medium", "high"} THEN "moderate"
    ELSE IF freq <= 2 THEN "light"
    ELSE "sedentary"

\* the rule with 'light' kept for fewer than two sessions a week
infer_activity_level_light_below_two(freq, intensity) ==
    IF freq >= 5 /\ Lower(intensity) = "high" THEN "very active"
    ELSE IF freq >= 3 /\ Lower(intensity) \in {"medium", "high"} THEN "moderate"
    ELSE IF freq < 2 THEN "light"
    ELSE "sedentary"

infer_activity_level(freq, intensity) ==
    IF freq >= 5 /\ Lower(intensity) = "high" THEN "very active"
    ELSE IF freq >= 3 /\ Lower(intensity) \in {"medium", "high"} THEN "moderate"
    ELSE IF freq <= 2 THEN "light"
    ELSE "sedentary"

\* the conversion that leaves a height in feet as it is
HeightInInches_feet_untouched(data) ==
    IF Lower(data.height_unit) = "cm" THEN (data.height_value * 393701) \div 1000
    ELSE data.height_value * 1000

\* height in thousandths of an inch
HeightInInches(data) ==
    IF Lower(data.height_unit) = "cm" THEN (data.height_value * 393701) \div 1000
    ELSE IF Lower(data.height_unit) = "feet" THEN data.height_value * 12 * 1000
    ELSE data.height_value * 1000

\* weight in thousandths of a kilogram
WeightInKg(data) ==
    IF Lower(data.weight_unit) = "lbs" THEN (data.weight_value * 453592) \div 1000
    ELSE data.weight_value * 1000

\* height in ten-thousandths of a metre
HeightInMeters(height_in_inches) == (height_in_inches * 254) \div 1000

\* bmi in hundredths
Bmi(weight_in_kg, height_in_meters) ==
    IF height_in_meters > 0
    THEN (weight_in_kg * 1000) \div ((height_in_meters * height_in_meters) \div 10000)
    ELSE 0

\* An HTTPException(status_code, detail); allowed is the category list an
\* invalid-value detail ends with
HTTPException(status, detail, allowed) ==
    [raised |-> TRUE, status |-> status, detail |-> detail, allowed |-> allowed]

preprocess_user_data_for_exercise(data, encoders) ==
    LET height_in_inches == HeightInInches(data)
        weight_in_kg == WeightInKg(data)
        bmi == Bmi(weight_in_kg, HeightInMeters(height_in_inches))
    IN  IF encoders = None \/ ~Has(encoders, "gender")
        THEN HTTPException(500, "Gender LabelEncoder not loaded or missing from 'label_encoders'.", <<>>)
        ELSE IF encoders.gender = None
        THEN HTTPException(500, "Gender LabelEncoder found None in 'label_encoders'.", <<>>)
        ELSE IF ~Knows(encoders.gender, Lower(data.gender))
        THEN HTTPException(400, "Invalid gender value", encoders.gender.classes)
        ELSE [raised |-> FALSE,
              processed_core_features |->
                 [age |-> data.age,
                  gender |-> Transform(encoders.gender, Lower(data.gender)),
                  height |-> height_in_inches,
                  weight |-> weight_in_kg,
                  bmi |-> bmi,
                  calories_intake |-> data.calories_intake]]

----------------------------------------------------------------------------
(* Artifacts on disk, read by startup_all *)

Missing == [missing |-> TRUE]

\* a pickled model: predict answers, or predict raises
ModelFiles == {Missing, [raises |-> FALSE], [raises |-> TRUE]}

GenderClasses == <<"female", "male">>
ExerciseTypeClasses == <<"cardio">>
IntensityClasses == <<"high", "low", "medium">>
ActivityClasses == <<"light", "moderate", "sedentary", "very active">>

\* label_encoders.pkl
ExerciseEncoderFiles ==
    { Missing,
      [gender |-> LabelEncoder(GenderClasses),
       exercise_type |-> LabelEncoder(ExerciseTypeClasses),
       intensity_level |-> LabelEncoder(IntensityClasses)],
      [gender |-> LabelEncoder(<<"F", "M">>),
       exercise_type |-> LabelEncoder(ExerciseTypeClasses),
       intensity_level |-> LabelEncoder(IntensityClasses)],
      [gender |-> LabelEncoder(GenderClasses),
       exercise_type |-> LabelEncoder(ExerciseTypeClasses)],
      [exercise_type |-> LabelEncoder(ExerciseTypeClasses),
       intensity_level |-> LabelEncoder(IntensityClasses)] }

DietEncodersWith(g) ==
    [gender |-> g,
     exercise_type |-> LabelEncoder(ExerciseTypeClasses),
     intensity_level |-> LabelEncoder(IntensityClasses),
     activity_level |-> LabelEncoder(ActivityClasses)]

\* diet_label_encoders.pkl
DietEncoderFiles ==
    { Missing,
      EmptyDict,
      DietEncodersWith(LabelEncoder(GenderClasses)),
      DietEncodersWith(LabelEncoder(<<"male", "other">>)),
      DietEncodersWith(None),
      [exercise_type |-> LabelEncoder(ExerciseTypeClasses),
       intensity_level |-> LabelEncoder(IntensityClasses),
       activity_level |-> LabelEncoder(ActivityClasses)],
      [gender |-> LabelEncoder(GenderClasses),
       exercise_type |-> LabelEncoder(ExerciseTypeClasses),
       intensity_level |-> LabelEncoder(IntensityClasses)] }

\* the outcome of MongoClient(MONGODB_URI) and of the ismaster ping
MongoOutcomes == {"ok", "bad_uri", "ping_failed"}

----------------------------------------------------------------------------
(* Request inputs and model outputs *)

\* request bodies accepted by the UserInput schema, without the session id
UserInputs ==
    { [age |-> 30, gender |-> "male", height_value |-> 180, height_unit |-> "cm",
       weight_value |-> 80, weight_unit |-> "kg", calories_intake |-> 2500],
      [age |-> 25, gender |-> "female", height_value |-> 5, height_unit |-> "feet",
       weight_value |-> 150, weight_unit |-> "lbs", calories_intake |-> 2000] }

\* multi_clf.predict: the encoded exercise type and intensity level
ClassifierOutputs == (0..MaxCode) \X (0..MaxCode)

\* multi_reg.predict: frequency per week (tenths), duration in minutes and
\* calorie burn (thousandths)
RegressorOutputs == { <<35, 45125, 310456>> }

\* report_request.user_details
UserDetails == { None, [first_name |-> "Ada"] }

----------------------------------------------------------------------------
(* The predictions collection *)

\* the position found if the filter were ignored: the first document
FindIndex_first_document(coll, sid) ==
    IF Len(coll) > 0 THEN 1 ELSE 0

\* position of the first document matching {"session_id": sid}, 0 if none
FindIndex(coll, sid) ==
    IF \E i \in 1..Len(coll) : coll[i].session_id = sid
    THEN CHOOSE i \in 1..Len(coll) :
            /\ coll[i].session_id = sid
            /\ \A j \in 1..(i - 1) : coll[j].session_id # sid
    ELSE 0

\* find_one without the filter: the first document, whatever its session id
find_one_unfiltered(coll, sid) ==
    IF coll = <<>> THEN None ELSE coll[1]

find_one(coll, sid) ==
    IF FindIndex(coll, sid) = 0 THEN None ELSE coll[FindIndex(coll, sid)]

\* insert_one in place of the upsert: a new document on every exercise write
update_one_inserting(coll, sid, fields, upsert) ==
    IF upsert THEN Append(coll, Merge([session_id |-> sid], fields))
    ELSE IF FindIndex(coll, sid) # 0
    THEN [coll EXCEPT ![FindIndex(coll, sid)] = Merge(@, fields)]
    ELSE coll

\* update_one({"session_id": sid}, {"$set": fields}, upsert)
update_one(coll, sid, fields, upsert) ==
    LET i == FindIndex(coll, sid)
    IN  IF i # 0 THEN [coll EXCEPT ![i] = Merge(@, fields)]
        ELSE IF upsert THEN Append(coll, Merge([session_id |-> sid], fields))
        ELSE coll

----------------------------------------------------------------------------
(* startup_all *)

\* what joblib.load leaves in the exercise globals, and whether the block raised
ExerciseLoad(clf, reg, enc) ==
    IF clf = Missing
    THEN [raised |-> TRUE, multi_clf |-> None, multi_reg |-> None, label_encoders |-> None]
    ELSE IF reg = Missing
    THEN [raised |-> TRUE, multi_clf |-> clf, multi_reg |-> None, label_encoders |-> None]
    ELSE IF enc = Missing \/ ~Has(enc, "gender")
    THEN [raised |-> TRUE, multi_clf |-> clf, multi_reg |-> reg, label_encoders |-> None]
    ELSE [raised |-> FALSE, multi_clf |-> clf, multi_reg |-> reg, label_encoders |-> enc]

\* the diet block catches its own failures and unsets both globals
DietLoad(dreg, denc) ==
    IF dreg = Missing \/ denc = Missing
    THEN [diet_regressor |-> None, diet_label_encoders |-> None]
    ELSE [diet_regressor |-> dreg, diet_label_encoders |-> denc]

startup_all ==
    /\ phase = "init"
    /\ \E mongo \in MongoOutcomes, clf \in ModelFiles, reg \in ModelFiles,
          enc \in ExerciseEncoderFiles, dreg \in ModelFiles, denc \in DietEncoderFiles :
         LET ex == ExerciseLoad(clf, reg, enc)
             di == DietLoad(dreg, denc)
         IN  IF mongo # "ok"
             THEN /\ phase' = "failed"
                  /\ db' = IF mongo = "bad_uri" THEN None ELSE [name |-> "vitafit"]
                  /\ UNCHANGED <<multi_clf, multi_reg, label_encoders,
                                 diet_regressor, diet_label_encoders>>
             ELSE /\ db' = [name |-> "vitafit"]
                  /\ multi_clf' = ex.multi_clf
                  /\ multi_reg' = ex.multi_reg
                  /\ label_encoders' = ex.label_encoders
                  /\ IF ex.raised
                     THEN /\ phase' = "failed"
                          /\ UNCHANGED <<diet_regressor, diet_label_encoders>>
                     ELSE /\ phase' = "serving"
                          /\ diet_regressor' = di.diet_regressor
                          /\ diet_label_encoders' = di.diet_label_encoders
    /\ UNCHANGED <<predictions, last, exercised, probe, others>>

\* requests are served once startup_all has completed, or by an application
\* whose startup events are not run at all (phase "init"); startup_all does
\* not run once a request has been served
Serving == phase \in {"init", "serving"}

----------------------------------------------------------------------------
(* Responses *)

NoResponse == [op |-> "none"]

\* the error response FastAPI makes of a raised HTTPException
ErrorResponse(op, sid, e) ==
    [op |-> op, session_id |-> sid, status |-> e.status, detail |-> e.detail,
     allowed |-> e.allowed, store_write |-> "none"]

\* the response to a request whose handler raised anything else
Unhandled == HTTPException(500, "Internal Server Error", <<>>)

----------------------------------------------------------------------------
(* POST /predict_exercise *)

\* the try block without the failure of the two predict calls
ExercisePredictions_predict_unchecked(y_class_pred_encoded, y_reg_pred, predict_raises) ==
    IF ~Has(label_encoders, "exercise_type")
       \/ ~InRange(label_encoders.exercise_type, y_class_pred_encoded[1])
       \/ ~Has(label_encoders, "intensity_level")
       \/ ~InRange(label_encoders.intensity_level, y_class_pred_encoded[2])
    THEN HTTPException(500, "Error during exercise prediction", <<>>)
    ELSE [raised |-> FALSE,
          exercise_predictions |->
             [exercise_type |->
                 InverseTransform(label_encoders.exercise_type, y_class_pred_encoded[1]),
              intensity_level |->
                 InverseTransform(label_encoders.intensity_level, y_class_pred_encoded[2]),
              frequency_per_week |-> RoundHalfEven(y_reg_pred[1]),
              duration_minutes |-> Round2(y_reg_pred[2]),
              estimated_calorie_burn |-> Round2(y_reg_pred[3])]]

\* step 2 of predict_exercise_plan: the try block around the two predict calls
\* and the decoding of their outputs; predict_raises is a predict call that
\* raises on this request, .raises a model that raises on every request
ExercisePredictions(y_class_pred_encoded, y_reg_pred, predict_raises) ==
    IF multi_clf.raises \/ multi_reg.raises \/ predict_raises
       \/ ~Has(label_encoders, "exercise_type")
       \/ ~InRange(label_encoders.exercise_type, y_class_pred_encoded[1])
       \/ ~Has(label_encoders, "intensity_level")
       \/ ~InRange(label_encoders.intensity_level, y_class_pred_encoded[2])
    THEN HTTPException(500, "Error during exercise prediction", <<>>)
    ELSE [raised |-> FALSE,
          exercise_predictions |->
             [exercise_type |->
                 InverseTransform(label_encoders.exercise_type, y_class_pred_encoded[1]),
              intensity_level |->
                 InverseTransform(label_encoders.intensity_level, y_class_pred_encoded[2]),
              frequency_per_week |-> RoundHalfEven(y_reg_pred[1]),
              duration_minutes |-> Round2(y_reg_pred[2]),
              estimated_calorie_burn |-> Round2(y_reg_pred[3])]]

\* the document without the reset of diet_predictions
PredictionRecord_keeping_diet(user_input, processed_core_features, exercise_predictions) ==
    [session_id |-> user_input.session_id,
     timestamp |-> "utcnow",
     raw_user_input |-> user_input,
     processed_features |-> processed_core_features,
     exercise_predictions |-> exercise_predictions]

\* the document predict_exercise_plan sets
PredictionRecord(user_input, processed_core_features, exercise_predictions) ==
    [session_id |-> user_input.session_id,
     timestamp |-> "utcnow",
     raw_user_input |-> user_input,
     processed_features |-> processed_core_features,
     exercise_predictions |-> exercise_predictions,
     diet_predictions |-> EmptyDict]

\* the write if the upsert set the three fields of phase 1 only
ExerciseStore_phase_one_fields(record, update_raises) ==
    IF db = None \/ update_raises THEN predictions
    ELSE update_one(predictions, record.session_id,
                    [k \in DOMAIN record \ {"diet_predictions"} |-> record[k]], TRUE)

\* step 3 of predict_exercise_plan: what the store holds afterwards; an
\* update_one that raises is caught and leaves the collection as it was
ExerciseStore(record, update_raises) ==
    IF db = None \/ update_raises THEN predictions
    ELSE update_one(predictions, record.session_id, record, TRUE)

ExerciseStoreWrite(update_raises) ==
    IF db = None THEN "skipped" ELSE IF update_raises THEN "raised" ELSE "ok"

predict_exercise_plan(sid, data, y_class_pred_encoded, y_reg_pred, predict_raises, update_raises) ==
    LET user_input == Merge(data, [session_id |-> sid])
        pre == preprocess_user_data_for_exercise(user_input, label_encoders)
        ex == ExercisePredictions(y_class_pred_encoded, y_reg_pred, predict_raises)
        Fail(e) == /\ last' = Merge(ErrorResponse("predict_exercise", sid, e),
                                    [request |-> user_input])
                   /\ UNCHANGED predictions
    IN  /\ Serving
        /\ IF ~(Truthy(multi_clf) /\ Truthy(multi_reg) /\ Truthy(label_encoders))
           THEN Fail(HTTPException(500, "Exercise models or encoders are not loaded. Server might be misconfigured.", <<>>))
           ELSE IF pre.raised THEN Fail(pre)
           ELSE IF ex.raised THEN Fail(ex)
           ELSE /\ predictions' =
                      ExerciseStore(PredictionRecord(user_input, pre.processed_core_features,
                                                     ex.exercise_predictions),
                                    update_raises)
                /\ last' = [op |-> "predict_exercise", session_id |-> sid, status |-> 200,
                            request |-> user_input,
                            processed_features |-> pre.processed_core_features,
                            exercise_plan |-> ex.exercise_predictions,
                            message |-> "Exercise plan generated. You can now generate a diet plan with more details if desired.",
                            store_write |-> ExerciseStoreWrite(update_raises)]
        /\ exercised' = exercised \cup {sid}
        /\ phase' = "serving"
        /\ UNCHANGED <<globals, probe, others>>

PredictExercise ==
    \E sid \in SessionIds, data \in UserInputs, c \in ClassifierOutputs,
       r \in RegressorOutputs, predict_raises \in BOOLEAN, update_raises \in BOOLEAN :
        predict_exercise_plan(sid, data, c, r, predict_raises, update_raises)

----------------------------------------------------------------------------
(* POST /predict_diet *)

\* an exception other than HTTPException raised inside the try block
Raised(kind) == [raised |-> TRUE, status |-> 0, detail |-> kind, allowed |-> <<>>]

DietEncodersMissing ==
    \/ diet_label_encoders = None
    \/ ~Has(diet_label_encoders, "exercise_type") \/ diet_label_encoders.exercise_type = None
    \/ ~Has(diet_label_encoders, "intensity_level") \/ diet_label_encoders.intensity_level = None
    \/ ~Has(diet_label_encoders, "activity_level") \/ diet_label_encoders.activity_level = None

HasDietGenderEncoder ==
    /\ diet_label_encoders # None
    /\ Has(diet_label_encoders, "gender")
    /\ diet_label_encoders.gender # None

\* the gender handed to the diet model if the code of phase 1 were reused
DietEncodedGender_reusing_exercise_code(processed_core_features, diet_gender_raw) ==
    processed_core_features.gender

\* the gender handed to the diet model if a missing encoder meant code 0
DietEncodedGender_defaulting(processed_core_features, diet_gender_raw) ==
    IF HasDietGenderEncoder
    THEN Transform(diet_label_encoders.gender, diet_gender_raw)
    ELSE 0

\* the gender handed to the diet model, once the raw gender is known to encode
DietEncodedGender(processed_core_features, diet_gender_raw) ==
    IF HasDietGenderEncoder
    THEN Transform(diet_label_encoders.gender, diet_gender_raw)
    ELSE processed_core_features.gender

\* output column i of diet_regressor.predict on the one-row frame x: the
\* regressor is an opaque function of its input
DietModelOutput(x, i) == [column |-> i, of |-> x]

DietModelInputData(processed_core_features, exercise_predictions, diet_encoded_gender, freq_for_activity, activity_level) ==
    [age |-> processed_core_features.age,
     gender |-> diet_encoded_gender,
     height |-> processed_core_features.height,
     weight |-> processed_core_features.weight,
     bmi |-> processed_core_features.bmi,
     calories_intake |-> processed_core_features.calories_intake,
     exercise_type |->
        Transform(diet_label_encoders.exercise_type, exercise_predictions.exercise_type),
     intensity_level |->
        Transform(diet_label_encoders.intensity_level, exercise_predictions.intensity_level),
     frequency_per_week |-> freq_for_activity,
     activity_level |-> Transform(diet_label_encoders.activity_level, activity_level)]

DietPlan(x) ==
    [recommended_calories |-> [round2 |-> DietModelOutput(x, 0)],
     protein_grams_per_day |-> [round2 |-> DietModelOutput(x, 1)],
     carbs_grams_per_day |-> [round2 |-> DietModelOutput(x, 2)],
     fats_grams_per_day |-> [round2 |-> DietModelOutput(x, 3)]]

CoreFeatureKeys == {"age", "gender", "height", "weight", "bmi", "calories_intake"}

\* the try block of predict_diet_plan: the first statement that raises decides
DietTry(processed_core_features, exercise_predictions, raw_user_input) ==
    LET freq_for_activity == Get(exercise_predictions, "frequency_per_week", 0)
    IN  IF ~Has(exercise_predictions, "intensity_level") THEN Raised("KeyError")
        ELSE IF ~Has(raw_user_input, "gender") THEN Raised("KeyError")
        ELSE IF HasDietGenderEncoder
                /\ ~Knows(diet_label_encoders.gender, Lower(raw_user_input.gender))
        THEN HTTPException(400, "Invalid gender for diet model", diet_label_encoders.gender.classes)
        ELSE IF ~HasDietGenderEncoder /\ ~Has(processed_core_features, "gender")
        THEN Raised("KeyError")
        ELSE IF DietEncodersMissing
        THEN HTTPException(500, "Diet label encoders for exercise_type, intensity_level, or activity_level are missing or not loaded.", <<>>)
        ELSE IF ~Has(exercise_predictions, "exercise_type") THEN Raised("KeyError")
        ELSE IF ~Knows(diet_label_encoders.exercise_type, exercise_predictions.exercise_type)
        THEN Raised("ValueError")
        ELSE IF ~Knows(diet_label_encoders.intensity_level, exercise_predictions.intensity_level)
        THEN Raised("ValueError")
        ELSE IF ~Knows(diet_label_encoders.activity_level,
                       infer_activity_level(freq_for_activity, exercise_predictions.intensity_level))
        THEN Raised("ValueError")
        ELSE IF ~(CoreFeatureKeys \subseteq DOMAIN processed_core_features)
        THEN Raised("KeyError")
        ELSE IF diet_regressor.raises THEN Raised("predict")
        ELSE [raised |-> FALSE,
              diet_predictions |->
                 DietPlan(DietModelInputData(
                    processed_core_features, exercise_predictions,
                    DietEncodedGender(processed_core_features, Lower(raw_user_input.gender)),
                    freq_for_activity,
                    infer_activity_level(freq_for_activity,
                                         exercise_predictions.intensity_level)))]

\* the except block if every failure became an error payload in place of the plan
DietExcept_as_payload(e) ==
    [raised |-> FALSE,
     diet_predictions |-> [error |-> "Diet model not fully loaded or available."]]

\* the except block of predict_diet_plan: an error payload in place of the
\* plan when the diet globals are unset, a server error otherwise. The detail
\* of the server error is str(e) of the caught exception
DietExcept(e) ==
    IF ~Truthy(diet_regressor) \/ ~Truthy(diet_label_encoders)
    THEN [raised |-> FALSE,
          diet_predictions |-> [error |-> "Diet model not fully loaded or available."]]
    ELSE [raised |-> TRUE, status |-> 500,
          detail |-> "Could not generate diet plan due to internal error",
          allowed |-> e.allowed]

DietPredictions(prediction_record) ==
    LET t == DietTry(Get(prediction_record, "processed_features", EmptyDict),
                     Get(prediction_record, "exercise_predictions", EmptyDict),
                     Get(prediction_record, "raw_user_input", EmptyDict))
    IN  IF t.raised THEN DietExcept(t) ELSE t

\* not processed_core_features or not exercise_predictions
IncompleteStoredData(prediction_record) ==
    \/ DOMAIN Get(prediction_record, "processed_features", EmptyDict) = {}
    \/ DOMAIN Get(prediction_record, "exercise_predictions", EmptyDict) = {}

\* the update that also clears the exercise predictions it was made from
DietStore_clearing_exercise(sid, diet_predictions, update_raises) ==
    IF db = None \/ update_raises THEN predictions
    ELSE update_one(predictions, sid,
                    [diet_predictions |-> diet_predictions, last_updated |-> "utcnow",
                     exercise_predictions |-> EmptyDict],
                    FALSE)

\* the update that is skipped when the stored diet_predictions is empty
DietStore_unless_reset(sid, diet_predictions, update_raises) ==
    IF db = None \/ update_raises THEN predictions
    ELSE IF DOMAIN Get(find_one(predictions, sid), "diet_predictions", EmptyDict) = {}
    THEN predictions
    ELSE update_one(predictions, sid,
                    [diet_predictions |-> diet_predictions, last_updated |-> "utcnow"],
                    FALSE)

\* the update if a record that already has a diet plan were emptied instead
DietStore_clearing_on_repeat(sid, diet_predictions, update_raises) ==
    IF db = None \/ update_raises THEN predictions
    ELSE IF DOMAIN Get(find_one(predictions, sid), "diet_predictions", EmptyDict) # {}
    THEN update_one(predictions, sid,
                    [diet_predictions |-> EmptyDict, last_updated |-> "utcnow"], FALSE)
    ELSE update_one(predictions, sid,
                    [diet_predictions |-> diet_predictions, last_updated |-> "utcnow"],
                    FALSE)

\* the update of the stored record; an update_one that raises is caught
DietStore(sid, diet_predictions, update_raises) ==
    IF db = None \/ update_raises THEN predictions
    ELSE update_one(predictions, sid,
                    [diet_predictions |-> diet_predictions, last_updated |-> "utcnow"],
                    FALSE)

DietStoreWrite(update_raises) ==
    IF db = None THEN "skipped" ELSE IF update_raises THEN "raised" ELSE "ok"

\* the checks without the one for a missing record
DietPrecheck_without_not_found(prediction_record, find_raises) ==
    IF ~(Truthy(diet_regressor) /\ Truthy(diet_label_encoders))
    THEN HTTPException(500, "Diet prediction models or encoders are not loaded. Server might be misconfigured.", <<>>)
    ELSE IF db = None
    THEN HTTPException(500, "MongoDB client not initialized. Cannot generate diet plan.", <<>>)
    ELSE IF find_raises
    THEN Unhandled
    ELSE IF IncompleteStoredData(prediction_record)
    THEN HTTPException(500, "Incomplete stored data for session. Cannot generate diet plan.", <<>>)
    ELSE [raised |-> FALSE]

\* the checks of predict_diet_plan before its try block, in their order
\* the checks with the one for the store ahead of the one for the diet model
DietPrecheck_store_first(prediction_record, find_raises) ==
    IF db = None
    THEN HTTPException(500, "MongoDB client not initialized. Cannot generate diet plan.", <<>>)
    ELSE IF ~(Truthy(diet_regressor) /\ Truthy(diet_label_encoders))
    THEN HTTPException(500, "Diet prediction models or encoders are not loaded. Server might be misconfigured.", <<>>)
    ELSE IF find_raises
    THEN Unhandled
    ELSE IF prediction_record = None
    THEN HTTPException(404, "No exercise predictions found for session ID", <<>>)
    ELSE IF IncompleteStoredData(prediction_record)
    THEN HTTPException(500, "Incomplete stored data for session. Cannot generate diet plan.", <<>>)
    ELSE [raised |-> FALSE]

DietPrecheck(prediction_record, find_raises) ==
    IF ~(Truthy(diet_regressor) /\ Truthy(diet_label_encoders))
    THEN HTTPException(500, "Diet prediction models or encoders are not loaded. Server might be misconfigured.", <<>>)
    ELSE IF db = None
    THEN HTTPException(500, "MongoDB client not initialized. Cannot generate diet plan.", <<>>)
    ELSE IF find_raises
    THEN Unhandled
    ELSE IF prediction_record = None
    THEN HTTPException(404, "No exercise predictions found for session ID", <<>>)
    ELSE IF IncompleteStoredData(prediction_record)
    THEN HTTPException(500, "Incomplete stored data for session. Cannot generate diet plan.", <<>>)
    ELSE [raised |-> FALSE]

\* the handler if a diet model whose predict raised were dropped for the
\* requests that follow
predict_diet_plan_unloading_on_failure(sid, find_raises, update_raises) ==
    LET prediction_record == find_one(predictions, sid)
        pre == DietPrecheck(prediction_record, find_raises)
        d == DietPredictions(prediction_record)
        Fail(e) == /\ last' = ErrorResponse("predict_diet", sid, e)
                   /\ UNCHANGED predictions
    IN  /\ Serving
        /\ IF pre.raised THEN Fail(pre) /\ UNCHANGED diet_regressor
           ELSE IF d.raised THEN Fail(d) /\ diet_regressor' = None
           ELSE /\ predictions' = DietStore(sid, d.diet_predictions, update_raises)
                /\ last' = [op |-> "predict_diet", session_id |-> sid, status |-> 200,
                            diet_plan |-> d.diet_predictions,
                            message |-> "Diet plan generated successfully!",
                            store_write |-> DietStoreWrite(update_raises)]
                /\ UNCHANGED diet_regressor
        /\ phase' = "serving"
        /\ UNCHANGED <<db, multi_clf, multi_reg, label_encoders, diet_label_encoders,
                       exercised, probe, others>>

predict_diet_plan(sid, find_raises, update_raises) ==
    LET prediction_record == find_one(predictions, sid)
        pre == DietPrecheck(prediction_record, find_raises)
        d == DietPredictions(prediction_record)
        Fail(e) == /\ last' = ErrorResponse("predict_diet", sid, e)
                   /\ UNCHANGED predictions
    IN  /\ Serving
        /\ IF pre.raised THEN Fail(pre)
           ELSE IF d.raised THEN Fail(d)
           ELSE /\ predictions' = DietStore(sid, d.diet_predictions, update_raises)
                /\ last' = [op |-> "predict_diet", session_id |-> sid, status |-> 200,
                            diet_plan |-> d.diet_predictions,
                            message |-> "Diet plan generated successfully!",
                            store_write |-> DietStoreWrite(update_raises)]
        /\ phase' = "serving"
        /\ UNCHANGED <<globals, exercised, probe, others>>

PredictDiet ==
    \E sid \in SessionIds, find_raises \in BOOLEAN, update_raises \in BOOLEAN :
        predict_diet_plan(sid, find_raises, update_raises)

----------------------------------------------------------------------------
(* POST /generate_report *)

Paragraph(text) == [kind |-> "Paragraph", text |-> text]
Spacer == [kind |-> "Spacer"]
Table(section, rows) == [kind |-> "Table", section |-> section, rows |-> rows]

\* key.replace('_', ' ').title() + ":"
Label(key) ==
    CASE key = "session_id" -> "Session Id:"
      [] key = "age" -> "Age:"
      [] key = "gender" -> "Gender:"
      [] key = "height_value" -> "Height Value:"
      [] key = "height_unit" -> "Height Unit:"
      [] key = "weight_value" -> "Weight Value:"
      [] key = "weight_unit" -> "Weight Unit:"
      [] key = "calories_intake" -> "Calories Intake:"
      [] key = "exercise_type" -> "Exercise Type:"
      [] key = "intensity_level" -> "Intensity Level:"
      [] key = "frequency_per_week" -> "Frequency Per Week:"
      [] key = "duration_minutes" -> "Duration Minutes:"
      [] key = "estimated_calorie_burn" -> "Estimated Calorie Burn:"
      [] key = "recommended_calories" -> "Recommended Calories:"
      [] key = "protein_grams_per_day" -> "Protein Grams Per Day:"
      [] key = "carbs_grams_per_day" -> "Carbs Grams Per Day:"
      [] key = "fats_grams_per_day" -> "Fats Grams Per Day:"
      [] key = "error" -> "Error:"
      [] key = "message" -> "Message:"
      [] key = "first_name" -> "First Name:"
      [] OTHER -> key

\* the order in which the items of the stored dicts are iterated
RawInputKeys == <<"session_id", "age", "gender", "height_value", "height_unit",
                  "weight_value", "weight_unit", "calories_intake">>
ExerciseKeys == <<"exercise_type", "intensity_level", "frequency_per_week",
                  "duration_minutes", "estimated_calorie_burn">>
DietKeys == <<"recommended_calories", "protein_grams_per_day", "carbs_grams_per_day",
              "fats_grams_per_day", "error", "message">>

RECURSIVE Rows(_, _, _)
\* [[label(key), str(value)] for key, value in d.items() if key not in skip]
Rows(d, keys, skip) ==
    IF keys = <<>> THEN <<>>
    ELSE IF Has(d, Head(keys)) /\ Head(keys) \notin skip
    THEN <<[label |-> Label(Head(keys)), str |-> d[Head(keys)]]>> \o Rows(d, Tail(keys), skip)
    ELSE Rows(d, Tail(keys), skip)

UserDetailsSection(user_details) ==
    IF user_details # None /\ Has(user_details, "first_name")
    THEN <<Paragraph("User Details:"),
           Table("user", Rows(user_details, <<"first_name">>, {})), Spacer>>
    ELSE <<>>

SubmittedDataSection(prediction_record) ==
    LET rows == Rows(Get(prediction_record, "raw_user_input", EmptyDict), RawInputKeys, {})
    IN  <<Paragraph("Submitted Data:")>>
        \o (IF rows # <<>> THEN <<Table("raw", rows), Spacer>> ELSE <<>>)

ExerciseSection(prediction_record) ==
    LET rows == Rows(Get(prediction_record, "exercise_predictions", EmptyDict), ExerciseKeys, {})
    IN  <<Paragraph("Exercise Plan:")>>
        \o (IF rows # <<>> THEN <<Table("exercise", rows), Spacer>> ELSE <<>>)

\* the section chosen by the presence of the key, not by its content
DietSection_if_present(prediction_record) ==
    IF Has(prediction_record, "diet_predictions")
          /\ ~Has(prediction_record.diet_predictions, "error")
    THEN <<Paragraph("Diet Plan:")>>
         \o (IF Rows(prediction_record.diet_predictions, DietKeys, {"message"}) # <<>>
             THEN <<Table("diet", Rows(prediction_record.diet_predictions, DietKeys, {"message"})),
                    Spacer>>
             ELSE <<>>)
    ELSE IF Has(prediction_record, "diet_predictions")
    THEN <<[kind |-> "Paragraph", text |-> "Diet Plan Error: ",
            error |-> prediction_record.diet_predictions.error], Spacer>>
    ELSE <<Paragraph("Diet Plan: Not yet generated."), Spacer>>

\* the section without the test for an error payload
DietSection_error_in_table(prediction_record) ==
    LET diet_predictions_data == Get(prediction_record, "diet_predictions", EmptyDict)
        diet_data == Rows(diet_predictions_data, DietKeys, {"message"})
    IN  IF DOMAIN diet_predictions_data # {}
        THEN <<Paragraph("Diet Plan:")>>
             \o (IF diet_data # <<>> THEN <<Table("diet", diet_data), Spacer>> ELSE <<>>)
        ELSE <<Paragraph("Diet Plan: Not yet generated."), Spacer>>

DietSection(prediction_record) ==
    LET diet_predictions_data == Get(prediction_record, "diet_predictions", EmptyDict)
        diet_data == Rows(diet_predictions_data, DietKeys, {"message"})
    IN  IF DOMAIN diet_predictions_data # {} /\ ~Has(diet_predictions_data, "error")
        THEN <<Paragraph("Diet Plan:")>>
             \o (IF diet_data # <<>> THEN <<Table("diet", diet_data), Spacer>> ELSE <<>>)
        ELSE IF DOMAIN diet_predictions_data # {} /\ Has(diet_predictions_data, "error")
        THEN <<[kind |-> "Paragraph", text |-> "Diet Plan Error: ",
                error |-> diet_predictions_data.error], Spacer>>
        ELSE <<Paragraph("Diet Plan: Not yet generated."), Spacer>>

Elements(prediction_record, user_details) ==
    <<Paragraph("Fitness and Diet Plan Report"), Spacer>>
    \o UserDetailsSection(user_details)
    \o SubmittedDataSection(prediction_record)
    \o ExerciseSection(prediction_record)
    \o DietSection(prediction_record)

\* the handler if a missing record were created instead of refused
generate_report_creating_record(sid, user_details, find_raises) ==
    LET prediction_record == find_one(predictions, sid)
        absent == db # None /\ ~find_raises /\ prediction_record = None
    IN  /\ Serving
        /\ last' =
             IF db = None
             THEN ErrorResponse("generate_report", sid,
                     HTTPException(500, "MongoDB client not initialized. Cannot generate report.", <<>>))
             ELSE IF find_raises
             THEN ErrorResponse("generate_report", sid, Unhandled)
             ELSE [op |-> "generate_report", session_id |-> sid, status |-> 200,
                   elements |-> Elements(IF absent THEN [session_id |-> sid] ELSE prediction_record,
                                         user_details),
                   store_write |-> "none"]
        /\ predictions' = IF absent THEN update_one(predictions, sid, EmptyDict, TRUE) ELSE predictions
        /\ phase' = "serving"
        /\ UNCHANGED <<globals, exercised, probe, others>>

generate_report(sid, user_details, find_raises) ==
    LET prediction_record == find_one(predictions, sid)
    IN  /\ Serving
        /\ last' =
             IF db = None
             THEN ErrorResponse("generate_report", sid,
                     HTTPException(500, "MongoDB client not initialized. Cannot generate report.", <<>>))
             ELSE IF find_raises
             THEN ErrorResponse("generate_report", sid, Unhandled)
             ELSE IF prediction_record = None
             THEN ErrorResponse("generate_report", sid,
                     HTTPException(404, "No predictions found for session ID", <<>>))
             ELSE [op |-> "generate_report", session_id |-> sid, status |-> 200,
                   elements |-> Elements(prediction_record, user_details),
                   store_write |-> "none"]
        /\ phase' = "serving"
        /\ UNCHANGED <<globals, predictions, exercised, probe, others>>

GenerateReport ==
    \E sid \in SessionIds, user_details \in UserDetails, find_raises \in BOOLEAN :
        generate_report(sid, user_details, find_raises)

----------------------------------------------------------------------------
Init ==
    /\ phase = "init"
    /\ db = None
    /\ multi_clf = None
    /\ multi_reg = None
    /\ label_encoders = None
    /\ diet_regressor = None
    /\ diet_label_encoders = None
    /\ predictions = <<>>
    /\ last = NoResponse
    /\ exercised = {}
    /\ probe = [op |-> "none"]
    /\ requests = <<>>
    /\ mongodb_client = NotConnected
    /\ image_classifier = NoClassifier

Next ==
    \/ startup_all
    \/ PredictExercise
    \/ PredictDiet
    \/ GenerateReport

Spec == Init /\ [][Next]_vars

----------------------------------------------------------------------------
(* infer_activity_level applied on its own to every (frequency, intensity) *)

Intensities == {"high", "medium", "low", "High", "HIGH", "Medium", "Low", "extreme"}

InitActivity ==
    /\ phase = "init"
    /\ db = None
    /\ multi_clf = None
    /\ multi_reg = None
    /\ label_encoders = None
    /\ diet_regressor = None
    /\ diet_label_encoders = None
    /\ predictions = <<>>
    /\ last = NoResponse
    /\ exercised = {}
    /\ probe \in [op : {"args"}, freq : 0..MaxFrequency, intensity : Intensities]
    /\ requests = <<>>
    /\ mongodb_client = NotConnected
    /\ image_classifier = NoClassifier

InferActivityLevel ==
    /\ probe.op = "args"
    /\ probe' = [op |-> "infer_activity_level", freq |-> probe.freq,
                 intensity |-> probe.intensity,
                 result |-> infer_activity_level(probe.freq, probe.intensity)]
    /\ UNCHANGED <<phase, globals, predictions, last, exercised, others>>

NextActivity == InferActivityLevel

SpecActivity == InitActivity /\ [][NextActivity]_vars

----------------------------------------------------------------------------
(* The rendering of generate_report applied on its own to every shape of    *)
(* document that find_one can hand to it: each field the handler reads with *)
(* .get(key, {}) is absent, empty or filled                                 *)

StoredRawInput ==
    [session_id |-> "s1", age |-> 30, gender |-> "male", height_value |-> 180,
     height_unit |-> "cm", weight_value |-> 80, weight_unit |-> "kg",
     calories_intake |-> 2500]

StoredFeatures ==
    [age |-> 30, gender |-> 1, height |-> 70866, weight |-> 80000, bmi |-> 2469,
     calories_intake |-> 2500]

StoredExercise ==
    [exercise_type |-> "cardio", intensity_level |-> "high", frequency_per_week |-> 4,
     duration_minutes |-> 4512, estimated_calorie_burn |-> 31046]

StoredDietInput ==
    [age |-> 30, gender |-> 1, height |-> 70866, weight |-> 80000, bmi |-> 2469,
     calories_intake |-> 2500, exercise_type |-> 0, intensity_level |-> 0,
     frequency_per_week |-> 4, activity_level |-> 1]

Absent == [absent |-> TRUE]

\* the document with the fields that are not Absent
StoredDocument(raw, pf, ep, dp) ==
    LET fields == [raw_user_input |-> raw, processed_features |-> pf,
                   exercise_predictions |-> ep, diet_predictions |-> dp]
        present == {k \in DOMAIN fields : fields[k] # Absent}
    IN  Merge([session_id |-> "s1", timestamp |-> "utcnow"],
              [k \in present |-> fields[k]])

\* diet_predictions as the handlers assign it: the reset of
\* predict_exercise_plan, the plan and the error payload of predict_diet_plan
StoredDietPredictions ==
    { Absent, EmptyDict, DietPlan(StoredDietInput),
      [error |-> "Diet model not fully loaded or available."] }

StoredDocuments ==
    { StoredDocument(raw, pf, ep, dp) :
        raw \in {Absent, StoredRawInput},
        pf \in {Absent, StoredFeatures},
        ep \in {Absent, EmptyDict, StoredExercise},
        dp \in StoredDietPredictions }

InitReport ==
    /\ phase = "init"
    /\ db = None
    /\ multi_clf = None
    /\ multi_reg = None
    /\ label_encoders = None
    /\ diet_regressor = None
    /\ diet_label_encoders = None
    /\ predictions = <<>>
    /\ last = NoResponse
    /\ exercised = {}
    /\ probe \in [op : {"args"}, prediction_record : StoredDocuments,
                  user_details : UserDetails]
    /\ requests = <<>>
    /\ mongodb_client = NotConnected
    /\ image_classifier = NoClassifier

RenderReport ==
    /\ probe.op = "args"
    /\ probe' = [op |-> "generate_report",
                 prediction_record |-> probe.prediction_record,
                 user_details |-> probe.user_details,
                 elements |-> Elements(probe.prediction_record, probe.user_details)]
    /\ UNCHANGED <<phase, globals, predictions, last, exercised, others>>

NextReport == RenderReport

SpecReport == InitReport /\ [][NextReport]_vars


----------------------------------------------------------------------------
(* Several workers of the application serving requests on one collection.
   Inside one worker a handler runs from its first statement to its return
   (the handlers are async functions without an await, and the pymongo calls
   block), so requests interleave between workers only, and what interleaves
   are their operations on the collection.  startup_all creates no index on
   session_id: an upsert that matches no document inserts one, and between
   its match and its insert another worker's upsert can find no match as
   well. *)

Workers == {"w1", "w2"}

Idle == [pc |-> "idle"]

HealthyExerciseEncoders ==
    [gender |-> LabelEncoder(GenderClasses),
     exercise_type |-> LabelEncoder(ExerciseTypeClasses),
     intensity_level |-> LabelEncoder(IntensityClasses)]

HealthyDietEncoders == DietEncodersWith(LabelEncoder(GenderClasses))

\* every worker has run startup_all on the same artifacts; the collection is
\* empty or holds what one served predict_exercise for "s1" has stored
InitConcurrent ==
    /\ phase = "serving"
    /\ db = [name |-> "vitafit"]
    /\ multi_clf = [raises |-> FALSE]
    /\ multi_reg = [raises |-> FALSE]
    /\ label_encoders = HealthyExerciseEncoders
    /\ diet_regressor = [raises |-> FALSE]
    /\ diet_label_encoders = HealthyDietEncoders
    /\ \E data \in UserInputs, c \in ClassifierOutputs, r \in RegressorOutputs :
          LET user_input == Merge(data, [session_id |-> "s1"])
          IN  /\ ~ExercisePredictions(c, r, FALSE).raised
              /\ predictions \in
                    { <<>>,
                      <<PredictionRecord(
                           user_input,
                           preprocess_user_data_for_exercise(
                               user_input, HealthyExerciseEncoders).processed_core_features,
                           ExercisePredictions(c, r, FALSE).exercise_predictions)>> }
    /\ last = NoResponse
    /\ exercised = {}
    /\ probe = [op |-> "none"]
    /\ requests = [w \in Workers |-> Idle]
    /\ mongodb_client = NotConnected
    /\ image_classifier = NoClassifier

Answered(w, status) ==
    requests' = [requests EXCEPT ![w] = Merge(@, [pc |-> "done", status |-> status])]

\* predict_exercise_plan up to its update_one
ReceiveExercise(w) ==
    /\ requests[w].pc = "idle"
    /\ \E sid \in SessionIds, data \in UserInputs, c \in ClassifierOutputs,
          r \in RegressorOutputs :
         LET user_input == Merge(data, [session_id |-> sid])
             pre == preprocess_user_data_for_exercise(user_input, label_encoders)
             ex == ExercisePredictions(c, r, FALSE)
         IN  /\ ~pre.raised /\ ~ex.raised
             /\ requests' =
                  [requests EXCEPT ![w] =
                     [pc |-> "update_one", op |-> "predict_exercise", session_id |-> sid,
                      prediction_record |->
                         PredictionRecord(user_input, pre.processed_core_features,
                                          ex.exercise_predictions)]]
    /\ UNCHANGED <<phase, globals, predictions, last, exercised, probe, mongodb_client,
                   image_classifier>>

\* the upsert evaluates its filter: a matching document is updated at once
UpsertMatch(w) ==
    /\ requests[w].pc = "update_one" /\ requests[w].op = "predict_exercise"
    /\ IF FindIndex(predictions, requests[w].session_id) # 0
       THEN /\ predictions' = update_one(predictions, requests[w].session_id,
                                         requests[w].prediction_record, TRUE)
            /\ Answered(w, 200)
       ELSE /\ requests' = [requests EXCEPT ![w].pc = "insert"]
            /\ UNCHANGED predictions
    /\ UNCHANGED <<phase, globals, last, exercised, probe, mongodb_client,
                   image_classifier>>

\* the upsert that matched nothing inserts its document
UpsertInsert(w) ==
    /\ requests[w].pc = "insert"
    /\ predictions' = Append(predictions,
                             Merge([session_id |-> requests[w].session_id],
                                   requests[w].prediction_record))
    /\ Answered(w, 200)
    /\ UNCHANGED <<phase, globals, last, exercised, probe, mongodb_client,
                   image_classifier>>

\* predict_diet_plan up to its update_one: the checks, find_one, the diet model
ReceiveDiet(w) ==
    /\ requests[w].pc = "idle"
    /\ \E sid \in SessionIds :
         LET prediction_record == find_one(predictions, sid)
             pre == DietPrecheck(prediction_record, FALSE)
             d == DietPredictions(prediction_record)
             request == [op |-> "predict_diet", session_id |-> sid]
         IN  requests' =
               [requests EXCEPT ![w] =
                  IF pre.raised
                  THEN Merge(request, [pc |-> "done", status |-> pre.status])
                  ELSE IF d.raised
                  THEN Merge(request, [pc |-> "done", status |-> d.status])
                  ELSE Merge(request, [pc |-> "update_one", found |-> prediction_record,
                                       diet_predictions |-> d.diet_predictions])]
    /\ UNCHANGED <<phase, globals, predictions, last, exercised, probe, mongodb_client,
                   image_classifier>>

\* the update_one of predict_diet_plan
DietUpdate(w) ==
    /\ requests[w].pc = "update_one" /\ requests[w].op = "predict_diet"
    /\ predictions' = DietStore(requests[w].session_id, requests[w].diet_predictions, FALSE)
    /\ Answered(w, 200)
    /\ UNCHANGED <<phase, globals, last, exercised, probe, mongodb_client,
                   image_classifier>>

NextConcurrent ==
    \E w \in Workers :
        \/ ReceiveExercise(w)
        \/ UpsertMatch(w)
        \/ UpsertInsert(w)
        \/ ReceiveDiet(w)
        \/ DietUpdate(w)

SpecConcurrent == InitConcurrent /\ [][NextConcurrent]_vars

----------------------------------------------------------------------------
(* The unit conversions and the BMI of preprocess_user_data_for_exercise
   applied on their own to heights and weights in every unit *)

Heights ==
    {<<150, "cm">>, <<160, "cm">>, <<170, "cm">>, <<180, "cm">>, <<190, "cm">>,
     <<60, "inches">>, <<70, "inches">>, <<5, "feet">>, <<6, "feet">>}

Weights ==
    {<<50, "kg">>, <<70, "kg">>, <<80, "kg">>, <<100, "kg">>,
     <<110, "lbs">>, <<150, "lbs">>, <<200, "lbs">>}

MeasuredInput(h, w) ==
    [session_id |-> "s1", age |-> 30, gender |-> "male",
     height_value |-> h[1], height_unit |-> h[2],
     weight_value |-> w[1], weight_unit |-> w[2], calories_intake |-> 2500]

InitUnits ==
    /\ phase = "init"
    /\ db = None
    /\ multi_clf = None
    /\ multi_reg = None
    /\ label_encoders = None
    /\ diet_regressor = None
    /\ diet_label_encoders = None
    /\ predictions = <<>>
    /\ last = NoResponse
    /\ exercised = {}
    /\ probe \in {[op |-> "args", data |-> MeasuredInput(h, w)] : h \in Heights, w \in Weights}
    /\ requests = <<>>
    /\ mongodb_client = NotConnected
    /\ image_classifier = NoClassifier

Preprocess ==
    /\ probe.op = "args"
    /\ probe' = [op |-> "preprocess_user_data_for_exercise",
                 data |-> probe.data,
                 processed_core_features |->
                    preprocess_user_data_for_exercise(
                        probe.data, HealthyExerciseEncoders).processed_core_features]
    /\ UNCHANGED <<phase, globals, predictions, last, exercised, others>>

NextUnits == Preprocess

SpecUnits == InitUnits /\ [][NextUnits]_vars

----------------------------------------------------------------------------
(* The BMI expression of preprocess_user_data_for_exercise over the range of
   a Python float.  height_value is a float that the request schema accepts
   when it is > 0; a float is m * 10^e here, with a mantissa m of at most four
   digits, and 0.0 is the mantissa 0.  A product below the smallest positive
   float is 0.0; a power above the largest float raises OverflowError. *)

Float(m, e) == [m |-> m, e |-> e]

Zero == Float(0, 0)

\* the decimal exponents of the smallest and of the largest positive float
MinExponent == -324
MaxExponent == 308

Digits(m) == IF m < 10 THEN 1 ELSE IF m < 100 THEN 2 ELSE IF m < 1000 THEN 3 ELSE 4

RECURSIVE Normalize(_, _)
Normalize(m, e) == IF m >= 10000 THEN Normalize(m \div 10, e + 1) ELSE Float(m, e)

\* the decimal exponent of a float that is not 0.0
Magnitude(x) == x.e + Digits(x.m) - 1

\* the first four digits of a mantissa
Leading(m) ==
    IF m < 10 THEN m * 1000 ELSE IF m < 100 THEN m * 100 ELSE IF m < 1000 THEN m * 10 ELSE m

\* a result that rounds to 0.0: it is below 2.47e-324, half of the smallest
\* positive float 4.94e-324
Underflows(x) ==
    \/ Magnitude(x) < MinExponent
    \/ Magnitude(x) = MinExponent /\ Leading(x.m) < 2470

\* a * b
FloatMul(a, b) ==
    IF a.m = 0 \/ b.m = 0 THEN Zero
    ELSE IF Underflows(Normalize(a.m * b.m, a.e + b.e)) THEN Zero
    ELSE Normalize(a.m * b.m, a.e + b.e)

FloatHeightInInches(height_value, height_unit) ==
    IF Lower(height_unit) = "cm" THEN FloatMul(height_value, Float(3937, -4))
    ELSE IF Lower(height_unit) = "feet" THEN FloatMul(height_value, Float(12, 0))
    ELSE height_value

FloatHeightInMeters(height_in_inches) == FloatMul(height_in_inches, Float(254, -4))

\* weight_in_kg / (height_in_meters ** 2) if height_in_meters > 0 else 0.0,
\* for a weight > 0: which branch is taken and what the division does
BmiOutcome(height_in_meters) ==
    IF height_in_meters.m > 0
    THEN IF Magnitude(Normalize(height_in_meters.m * height_in_meters.m,
                                2 * height_in_meters.e)) > MaxExponent
         THEN "OverflowError"
         ELSE IF FloatMul(height_in_meters, height_in_meters) = Zero
         THEN "ZeroDivisionError"
         ELSE "divided"
    ELSE "zero"

\* heights > 0 over the range of a float, from the smallest positive float
\* 5e-324 to 1.8e+200
FloatHeights ==
    {Float(5, -324), Float(1, -320), Float(1, -300), Float(18, -300),
     Float(1, -200), Float(18, -200), Float(1, -170), Float(18, -170),
     Float(1, -150), Float(18, -150), Float(1, -100), Float(1, -10),
     Float(1, -2), Float(1, 0), Float(5, 0), Float(6, 0), Float(7, 1),
     Float(15, 1), Float(18, 1), Float(1, 100), Float(1, 200), Float(18, 199)}

HeightUnits == {"cm", "inches", "feet"}

InitBmi ==
    /\ phase = "init"
    /\ db = None
    /\ multi_clf = None
    /\ multi_reg = None
    /\ label_encoders = None
    /\ diet_regressor = None
    /\ diet_label_encoders = None
    /\ predictions = <<>>
    /\ last = NoResponse
    /\ exercised = {}
    /\ probe \in [op : {"args"}, height_value : FloatHeights, height_unit : HeightUnits]
    /\ requests = <<>>
    /\ mongodb_client = NotConnected
    /\ image_classifier = NoClassifier

ComputeBmi ==
    /\ probe.op = "args"
    /\ LET height_in_meters ==
              FloatHeightInMeters(FloatHeightInInches(probe.height_value, probe.height_unit))
       IN  probe' = [op |-> "bmi",
                     height_value |-> probe.height_value,
                     height_unit |-> probe.height_unit,
                     height_in_meters |-> height_in_meters,
                     outcome |-> BmiOutcome(height_in_meters)]
    /\ UNCHANGED <<phase, globals, predictions, last, exercised, others>>

NextBmi == ComputeBmi

SpecBmi == InitBmi /\ [][NextBmi]_vars

----------------------------------------------------------------------------
(* database/mongodb_client.py: connect_to_mongodb, close_mongodb_connection *)
(* and get_db_collection called in any order                                *)

\* the number of MongoClient objects made
MaxClients == 10

CollectionNames == {"predictions", "users"}

\* mongodb_client.clients holds the state of every MongoClient made so far:
\* "open" (its ping succeeded), "unreachable" (its ping raised) or "closed"
connect_to_mongodb(outcome) ==
    LET made == Len(mongodb_client.clients) + 1
    IN  /\ IF mongodb_client.mongo_client # None
           THEN /\ probe' = [op |-> "connect_to_mongodb", raised |-> FALSE]
                /\ UNCHANGED mongodb_client
           ELSE IF outcome = "bad_uri"
           THEN /\ probe' = [op |-> "connect_to_mongodb", raised |-> TRUE]
                /\ UNCHANGED mongodb_client
           ELSE /\ made <= MaxClients
                /\ mongodb_client' =
                      [mongo_client |-> [client |-> made],
                       db |-> [client |-> made],
                       clients |-> Append(mongodb_client.clients,
                                          IF outcome = "ok" THEN "open" ELSE "unreachable")]
                /\ probe' = [op |-> "connect_to_mongodb", raised |-> outcome # "ok"]
        /\ UNCHANGED <<phase, globals, predictions, last, exercised, requests,
                   image_classifier>>

ConnectToMongodb == \E outcome \in MongoOutcomes : connect_to_mongodb(outcome)

close_mongodb_connection ==
    /\ IF mongodb_client.mongo_client # None
       THEN mongodb_client' =
               [mongodb_client EXCEPT
                   !.clients[mongodb_client.mongo_client.client] = "closed",
                   !.mongo_client = None]
       ELSE UNCHANGED mongodb_client
    /\ probe' = [op |-> "close_mongodb_connection", raised |-> FALSE]
    /\ UNCHANGED <<phase, globals, predictions, last, exercised, requests,
                   image_classifier>>

get_db_collection(collection_name) ==
    /\ probe' =
          IF mongodb_client.db = None
          THEN [op |-> "get_db_collection", collection_name |-> collection_name,
                raised |-> TRUE]
          ELSE [op |-> "get_db_collection", collection_name |-> collection_name,
                raised |-> FALSE,
                collection |-> [client |-> mongodb_client.db.client,
                                name |-> collection_name]]
    /\ UNCHANGED <<phase, globals, predictions, last, exercised, others>>

GetDbCollection == \E collection_name \in CollectionNames : get_db_collection(collection_name)

InitMongoClient ==
    /\ phase = "init"
    /\ db = None
    /\ multi_clf = None
    /\ multi_reg = None
    /\ label_encoders = None
    /\ diet_regressor = None
    /\ diet_label_encoders = None
    /\ predictions = <<>>
    /\ last = NoResponse
    /\ exercised = {}
    /\ probe = [op |-> "none"]
    /\ requests = <<>>
    /\ mongodb_client = NotConnected
    /\ image_classifier = NoClassifier

NextMongoClient ==
    \/ ConnectToMongodb
    \/ close_mongodb_connection
    \/ GetDbCollection

SpecMongoClient == InitMongoClient /\ [][NextMongoClient]_vars

----------------------------------------------------------------------------
(* The three copies of infer_activity_level applied to the same arguments:  *)
(* main.py, utils/helpers.py and 'project report engines/1API.py'           *)

\* backend/utils/helpers.py
helpers_infer_activity_level(freq, intensity) ==
    IF freq >= 5 /\ Lower(intensity) = "high" THEN "very active"
    ELSE IF freq >= 3 /\ Lower(intensity) \in {"medium", "high"} THEN "moderate"
    ELSE IF freq <= 2 THEN "light"
    ELSE "sedentary"

\* project report engines/1API.py: the intensity is compared as it is given
report_engine_infer_activity_level(freq, intensity) ==
    IF freq >= 5 /\ intensity = "high" THEN "very active"
    ELSE IF freq >= 3 /\ intensity \in {"medium", "high"} THEN "moderate"
    ELSE IF freq <= 2 THEN "light"
    ELSE "sedentary"

InferActivityLevels ==
    /\ probe.op = "args"
    /\ probe' = [op |-> "infer_activity_levels", freq |-> probe.freq,
                 intensity |-> probe.intensity,
                 main |-> infer_activity_level(probe.freq, probe.intensity),
                 helpers |-> helpers_infer_activity_level(probe.freq, probe.intensity),
                 report_engine |->
                    report_engine_infer_activity_level(probe.freq, probe.intensity)]
    /\ UNCHANGED <<phase, globals, predictions, last, exercised, others>>

NextActivityCopies == InferActivityLevels

SpecActivityCopies == InitActivity /\ [][NextActivityCopies]_vars

----------------------------------------------------------------------------
(* The checks that open predict_diet_plan applied on their own to every     *)
(* outcome of the diet block of startup_all, a store that is set or unset,  *)
(* a lookup that raises or answers, and every shape of the record found     *)

\* what find_one answers: no document, or one whose processed_features and
\* exercise_predictions are absent, empty or filled
FoundRecords ==
    {None} \cup { StoredDocument(StoredRawInput, pf, ep, EmptyDict) :
                    pf \in {Absent, EmptyDict, StoredFeatures},
                    ep \in {Absent, EmptyDict, StoredExercise} }

InitPrecheck ==
    /\ phase = "serving"
    /\ db \in {None, [name |-> "vitafit"]}
    /\ multi_clf = None
    /\ multi_reg = None
    /\ label_encoders = None
    /\ \E dreg \in ModelFiles, denc \in DietEncoderFiles :
          /\ diet_regressor = DietLoad(dreg, denc).diet_regressor
          /\ diet_label_encoders = DietLoad(dreg, denc).diet_label_encoders
    /\ predictions = <<>>
    /\ last = NoResponse
    /\ exercised = {}
    /\ probe \in [op : {"args"}, prediction_record : FoundRecords, find_raises : BOOLEAN]
    /\ requests = <<>>
    /\ mongodb_client = NotConnected
    /\ image_classifier = NoClassifier

CheckDietPreconditions ==
    /\ probe.op = "args"
    /\ probe' = [op |-> "predict_diet_checks",
                 prediction_record |-> probe.prediction_record,
                 find_raises |-> probe.find_raises,
                 outcome |-> DietPrecheck(probe.prediction_record, probe.find_raises)]
    /\ UNCHANGED <<phase, globals, predictions, last, exercised, others>>

NextPrecheck == CheckDietPreconditions

SpecPrecheck == InitPrecheck /\ [][NextPrecheck]_vars

----------------------------------------------------------------------------
(* models/Image_Classifier_Model/image_classifier_logic.py: one              *)
(* ImageClassifier object, constructed once and asked for predictions        *)

\* the boxes YOLO reports for one image
MaxBoxes == 2

\* Optional[str]: None or a string
Str(s) == [str |-> s]

DishNames == {"Burger", "Pizza", "Donut", "Hotdog", "FriedChicken"}

DISH_DATABASE ==
    [name \in DishNames |->
        CASE name = "Burger" ->
                [origin |-> "United States/Germany (disputed)",
                 description |-> "A sandwich consisting of a cooked patty of ground meat, usually beef, placed inside a sliced bun.",
                 estimated_calories |-> "300-600 kcal"]
          [] name = "Pizza" ->
                [origin |-> "Italy (Naples)",
                 description |-> "A savory dish of Italian origin consisting of a usually round, flattened base of leavened wheat-based dough topped with tomatoes, cheese, and various other ingredients, baked at a high temperature.",
                 estimated_calories |-> "250-400 kcal per slice"]
          [] name = "Donut" ->
                [origin |-> "Netherlands/United States",
                 description |-> "A small fried cake of sweetened dough, typically in the form of a ring or disk.",
                 estimated_calories |-> "200-450 kcal"]
          [] name = "Hotdog" ->
                [origin |-> "Germany/United States",
                 description |-> "A grilled or steamed sausage sandwich where the sausage is served in the slit of a partially sliced bun.",
                 estimated_calories |-> "250-500 kcal"]
          [] name = "FriedChicken" ->
                [origin |-> "Scotland/Southern United States",
                 description |-> "Dish consisting of chicken pieces that have been coated in a seasoned flour or batter and fried.",
                 estimated_calories |-> "300-600 kcal per serving"]]

\* yolo_model.names of the .pt file: the class names by class index, for a
\* model trained on the dishes of DISH_DATABASE and for one trained on others
ModelNames == { <<"Burger", "Pizza", "Donut">>, <<"Burger", "Salad">> }

\* a box as YOLO reports it: class index, confidence in thousandths,
\* corners in tenths of a pixel
DetectedBoxes ==
    [cls : {0, 1, 2}, conf : {875}, xyxy : {<<105, 204, 3005, 4015>>}]

\* the sequences over S of length n
RECURSIVE SeqsOfLength(_, _)
SeqsOfLength(S, n) ==
    IF n = 0 THEN {<<>>}
    ELSE {Append(q, x) : q \in SeqsOfLength(S, n - 1), x \in S}

\* what yolo_model.predict returns: a list of Results, the boxes of the image
\* in one Results object or spread over two
PredictResults ==
    UNION { { IF k = Len(boxes) THEN <<boxes>>
              ELSE <<SubSeq(boxes, 1, k), SubSeq(boxes, k + 1, Len(boxes))>> :
                k \in 0..Len(boxes) } :
            boxes \in UNION {SeqsOfLength(DetectedBoxes, n) : n \in 0..MaxBoxes} }

\* __init__ with _load_model: a YOLO(model_path) that raises leaves yolo_model None
ImageClassifier(load_raises, names) ==
    /\ image_classifier = NoClassifier
    /\ image_classifier' =
          [constructed |-> TRUE,
           yolo_model |-> IF load_raises THEN None ELSE [names |-> names]]
    /\ UNCHANGED <<phase, globals, predictions, last, exercised, probe, requests,
                   mongodb_client>>

NewImageClassifier ==
    \E load_raises \in BOOLEAN, names \in ModelNames : ImageClassifier(load_raises, names)

\* the record without any lookup in DISH_DATABASE
DishInfo_class_name_only(name, conf, xyxy) ==
    [class_name |-> name,
     confidence |-> Round2(conf),
     box |-> [i \in 1..Len(xyxy) |-> RoundHalfEven(xyxy[i])],
     origin |-> None, description |-> None, estimated_calories |-> None]

\* DishInfo(...) of one box whose class name is known
DishInfo(name, conf, xyxy) ==
    LET dish_details == IF name \in DOMAIN DISH_DATABASE THEN DISH_DATABASE[name] ELSE None
    IN  [class_name |-> name,
         confidence |-> Round2(conf),
         box |-> [i \in 1..Len(xyxy) |-> RoundHalfEven(xyxy[i])],
         origin |-> IF dish_details # None THEN Str(dish_details.origin) ELSE None,
         description |->
            IF dish_details # None THEN Str(dish_details.description) ELSE None,
         estimated_calories |->
            IF dish_details # None THEN Str(dish_details.estimated_calories) ELSE None]

\* all boxes of all results, in the order of the two loops
RECURSIVE AllBoxes(_)
AllBoxes(results) ==
    IF results = <<>> THEN <<>> ELSE Head(results) \o AllBoxes(Tail(results))

RaisedException(message) == [raised |-> TRUE, message |-> message]

\* the body of predict_dish_from_image for a model that is loaded
DetectDishes(names, image_opens, predict_raises, results) ==
    LET boxes == AllBoxes(results)
        detected_dishes_info ==
            [i \in 1..Len(boxes) |->
                DishInfo(names[boxes[i].cls + 1], boxes[i].conf, boxes[i].xyxy)]
    IN  IF ~image_opens \/ predict_raises
           \/ \E i \in 1..Len(boxes) : boxes[i].cls + 1 > Len(names)
        THEN RaisedException("An error occurred during dish prediction")
        ELSE IF detected_dishes_info = <<>>
        THEN [raised |-> FALSE, status |-> "success",
              message |-> "No known dishes detected in the image.",
              detections |-> <<>>]
        ELSE [raised |-> FALSE, status |-> "success",
              message |-> "Dishes detected successfully.",
              detections |-> detected_dishes_info]

predict_dish_from_image(image_opens, predict_raises, results) ==
    /\ image_classifier # NoClassifier
    /\ probe' =
          [op |-> "predict_dish_from_image",
           results |-> results,
           outcome |->
              IF image_classifier.yolo_model = None
              THEN RaisedException("Image detection model is not loaded. Cannot perform prediction.")
              ELSE DetectDishes(image_classifier.yolo_model.names, image_opens,
                                predict_raises, results)]
    /\ UNCHANGED <<phase, globals, predictions, last, exercised, others>>

PredictDishFromImage ==
    \E image_opens \in BOOLEAN, predict_raises \in BOOLEAN, results \in PredictResults :
        predict_dish_from_image(image_opens, predict_raises, results)

InitImage ==
    /\ phase = "init"
    /\ db = None
    /\ multi_clf = None
    /\ multi_reg = None
    /\ label_encoders = None
    /\ diet_regressor = None
    /\ diet_label_encoders = None
    /\ predictions = <<>>
    /\ last = NoResponse
    /\ exercised = {}
    /\ probe = [op |-> "none"]
    /\ requests = <<>>
    /\ mongodb_client = NotConnected
    /\ image_classifier = NoClassifier

NextImage ==
    \/ NewImageClassifier
    \/ PredictDishFromImage

SpecImage == InitImage /\ [][NextImage]_vars

----------------------------------------------------------------------------
(* Properties *)

HasRecord(s) == FindIndex(predictions, s) # 0

RecordOf(s) == find_one(predictions, s)

DietReady == Truthy(diet_regressor) /\ Truthy(diet_label_encoders)

Detail(response) == Get(response, "detail", "")

NotLoadedDetail == "Diet prediction models or encoders are not loaded. Server might be misconfigured."
NoStoreDetail == "MongoDB client not initialized. Cannot generate diet plan."
IncompleteDetail == "Incomplete stored data for session. Cannot generate diet plan."

\* the last request was predict_diet for a session id never passed to predict_exercise
DietForUnknownSession == last.op = "predict_diet" /\ last.session_id \notin exercised

(* C1, as stated: predict_diet on a session id never passed to
   predict_exercise answers not-found (404) and leaves no record for it. *)
C1_Original ==
    DietForUnknownSession => last.status = 404 /\ ~HasRecord(last.session_id)

(* C1, amended: predict_diet on a session id never passed to predict_exercise
   never succeeds and leaves no record for it; it answers not-found (404)
   exactly when the diet model and encoders are loaded, the store is
   initialised and the lookup did not raise, and a server error (500) naming
   the unmet condition otherwise. *)
C1_UnknownSessionRefused ==
    DietForUnknownSession =>
        /\ ~HasRecord(last.session_id)
        /\ last.status \in {404, 500}
        /\ last.status = 500 =>
              \/ last.detail = NotLoadedDetail /\ ~DietReady
              \/ last.detail = NoStoreDetail /\ DietReady /\ db = None
              \/ last.detail = Unhandled.detail /\ DietReady /\ db # None
        /\ last.status = 404 => DietReady /\ db # None

\* not-found for one session id while another one has a stored record
C1_Witness ==
    /\ DietForUnknownSession
    /\ last.status = 404
    /\ \E s \in exercised : HasRecord(s) /\ s # last.session_id

(* C2: the collection holds at most one document per session id, and after a
   predict_exercise whose store write succeeded the document of that session
   holds the raw input, processed features and exercise predictions of that
   call, whatever an earlier call had stored. *)
C2_OneRecordLatestWins ==
    /\ \A i, j \in 1..Len(predictions) :
          predictions[i].session_id = predictions[j].session_id => i = j
    /\ (last.op = "predict_exercise" /\ last.status = 200 /\ last.store_write = "ok") =>
          /\ HasRecord(last.session_id)
          /\ RecordOf(last.session_id).raw_user_input = last.request
          /\ RecordOf(last.session_id).processed_features = last.processed_features
          /\ RecordOf(last.session_id).exercise_predictions = last.exercise_plan

\* a later predict_exercise has overwritten a document that an earlier
\* predict_exercise created and a predict_diet updated
C2_Witness ==
    /\ last.op = "predict_exercise" /\ last.status = 200 /\ last.store_write = "ok"
    /\ HasRecord(last.session_id)
    /\ Has(RecordOf(last.session_id), "last_updated")
    /\ RecordOf(last.session_id).raw_user_input = last.request
    /\ Len(predictions) = Cardinality(SessionIds)

----------------------------------------------------------------------------
\* a step that serves predict_diet: startup_all leaves last at NoResponse
DietStep == last'.op = "predict_diet"

\* a record whose processed_features and exercise_predictions are both present
\* and non-empty
Complete(record) ==
    /\ Has(record, "processed_features") /\ DOMAIN record.processed_features # {}
    /\ Has(record, "exercise_predictions") /\ DOMAIN record.exercise_predictions # {}

\* the record the request finds, in the store before the step
FoundBy(response) == find_one(predictions, response.session_id)

(* C3, as stated: predict_diet stores a diet prediction only for a complete
   record, answers not-found when the record is absent and incomplete-data
   when processed_features or exercise_predictions is empty or missing, and
   leaves the store unchanged when it fails. *)
C3_Original ==
    [][DietStep =>
         /\ last'.status = 200 =>
               FoundBy(last') # None /\ Complete(FoundBy(last'))
         /\ FoundBy(last') = None => last'.status = 404
         /\ (FoundBy(last') # None /\ ~Complete(FoundBy(last'))) =>
               (last'.status = 500 /\ Detail(last') = IncompleteDetail)
         /\ last'.status # 200 => predictions' = predictions]_vars

(* C3, amended: predict_diet stores a diet prediction only for a complete
   record and leaves the store unchanged when it fails; once the diet model
   and encoders are loaded, the store is initialised and the lookup did not
   raise, it answers not-found when the record is absent and incomplete-data
   when processed_features or exercise_predictions is empty or missing. *)
C3_DietPrecondition ==
    [][DietStep =>
         /\ last'.status = 200 =>
               FoundBy(last') # None /\ Complete(FoundBy(last'))
         /\ predictions' # predictions =>
               (last'.status = 200 /\ Complete(FoundBy(last')))
         /\ (DietReady /\ db # None /\ Detail(last') # Unhandled.detail) =>
               /\ FoundBy(last') = None => last'.status = 404
               /\ (FoundBy(last') # None /\ ~Complete(FoundBy(last'))) =>
                     (last'.status = 500 /\ Detail(last') = IncompleteDetail)
         /\ last'.status # 200 => predictions' = predictions]_vars

\* predict_diet has stored its plan in a complete record while the other
\* session id has no record
C3_Witness ==
    /\ last.op = "predict_diet" /\ last.status = 200 /\ last.store_write = "ok"
    /\ Complete(RecordOf(last.session_id))
    /\ RecordOf(last.session_id).diet_predictions = last.diet_plan
    /\ \E s \in SessionIds : ~HasRecord(s)

----------------------------------------------------------------------------
\* the state of a session id in the collection coll
SessionState(coll, s) ==
    IF FindIndex(coll, s) = 0 THEN "NoSession"
    ELSE IF DOMAIN Get(find_one(coll, s), "diet_predictions", EmptyDict) = {}
    THEN "ExercisePredicted"
    ELSE "DietPredicted"

(* C4: a predict_exercise whose store write succeeded leaves its session in
   ExercisePredicted, whatever the state before; a session enters
   DietPredicted only by a successful predict_diet for it, from
   ExercisePredicted; no step takes a session from NoSession to DietPredicted
   or from any state back to NoSession. *)
C4_Lifecycle ==
    [][/\ (last'.op = "predict_exercise" /\ last'.status = 200
           /\ last'.store_write = "ok") =>
              SessionState(predictions', last'.session_id) = "ExercisePredicted"
       /\ \A s \in SessionIds :
            /\ (SessionState(predictions, s) # "DietPredicted"
                /\ SessionState(predictions', s) = "DietPredicted") =>
                  /\ last'.op = "predict_diet" /\ last'.session_id = s
                  /\ last'.status = 200 /\ last'.store_write = "ok"
                  /\ SessionState(predictions, s) = "ExercisePredicted"
            /\ SessionState(predictions, s) = "DietPredicted" =>
                  \/ SessionState(predictions', s) = "DietPredicted"
                  \/ /\ SessionState(predictions', s) = "ExercisePredicted"
                     /\ last'.op = "predict_exercise" /\ last'.session_id = s
            /\ SessionState(predictions, s) # "NoSession" =>
                  SessionState(predictions', s) # "NoSession"
            /\ (SessionState(predictions, s) = "NoSession"
                /\ SessionState(predictions', s) # "NoSession") =>
                  /\ SessionState(predictions', s) = "ExercisePredicted"
                  /\ last'.op = "predict_exercise" /\ last'.session_id = s]_vars

\* predict_exercise has taken a session that was DietPredicted back to
\* ExercisePredicted while the other session stays DietPredicted
C4_Witness ==
    /\ last.op = "predict_exercise" /\ last.status = 200 /\ last.store_write = "ok"
    /\ SessionState(predictions, last.session_id) = "ExercisePredicted"
    /\ Has(RecordOf(last.session_id), "last_updated")
    /\ \E s \in SessionIds : SessionState(predictions, s) = "DietPredicted"

----------------------------------------------------------------------------
\* the rule table read with the intensity compared as the string it is
ActivityTableExact(freq, intensity) ==
    CASE freq >= 5 /\ intensity = "high" -> "very active"
      [] freq >= 3 /\ freq < 5 /\ intensity = "high" -> "moderate"
      [] freq >= 3 /\ intensity = "medium" -> "moderate"
      [] freq <= 2 -> "light"
      [] OTHER -> "sedentary"

\* the rule table read with the intensity compared in lower case
ActivityTableFolded(freq, intensity) ==
    CASE freq >= 5 /\ Lower(intensity) = "high" -> "very active"
      [] freq >= 3 /\ freq < 5 /\ Lower(intensity) = "high" -> "moderate"
      [] freq >= 3 /\ Lower(intensity) = "medium" -> "moderate"
      [] freq <= 2 -> "light"
      [] OTHER -> "sedentary"

ActivityLabels == {"very active", "moderate", "light", "sedentary"}

Inferred == probe.op = "infer_activity_level"

(* C5, as stated: on every pair of a frequency >= 0 and an intensity string,
   infer_activity_level returns the label of the first matching row of the
   table whose rows compare the intensity with 'high' and 'medium'. *)
C5_Original ==
    Inferred => probe.result = ActivityTableExact(probe.freq, probe.intensity)

(* C5, amended: on every pair of a frequency >= 0 and an intensity string,
   infer_activity_level returns one of the four labels, the one of the first
   matching row of the table, whose rows compare the lower-cased intensity
   with 'high' and 'medium'; (5,'high') gives 'very active', (3,'medium')
   'moderate', (1,'low') 'light' and (4,'low') 'sedentary'. *)
C5_ActivityTable ==
    /\ Inferred =>
          /\ probe.result \in ActivityLabels
          /\ probe.result = ActivityTableFolded(probe.freq, probe.intensity)
    /\ (Inferred /\ probe.freq = 5 /\ probe.intensity = "high") => probe.result = "very active"
    /\ (Inferred /\ probe.freq = 3 /\ probe.intensity = "medium") => probe.result = "moderate"
    /\ (Inferred /\ probe.freq = 1 /\ probe.intensity = "low") => probe.result = "light"
    /\ (Inferred /\ probe.freq = 4 /\ probe.intensity = "low") => probe.result = "sedentary"

\* the rule applied at the first threshold to an intensity in mixed case
C5_Witness ==
    /\ Inferred
    /\ probe.freq = 5 /\ probe.intensity = "High"
    /\ probe.result = "very active"

----------------------------------------------------------------------------
ExerciseReady == Truthy(multi_clf) /\ Truthy(multi_reg) /\ Truthy(label_encoders)

\* predict_diet has reached its try block: the record the request found is in
\* the store as it was, apart from diet_predictions
DietStepReached ==
    /\ last.op = "predict_diet"
    /\ DietReady /\ db # None /\ Detail(last) # Unhandled.detail
    /\ HasRecord(last.session_id)
    /\ Complete(RecordOf(last.session_id))

(* C6, as stated: a gender outside the known classes of the gender encoder is
   answered with status 400 and the list of the allowed classes, by
   predict_exercise for the exercise encoder and by predict_diet for the diet
   encoder. *)
C6_UnknownGenderIs400 ==
    /\ (/\ last.op = "predict_exercise" /\ ExerciseReady
        /\ Has(label_encoders, "gender")
        /\ ~Knows(label_encoders.gender, Lower(last.request.gender))) =>
           (last.status = 400 /\ last.allowed = label_encoders.gender.classes)
    /\ (/\ DietStepReached /\ HasDietGenderEncoder
        /\ ~Knows(diet_label_encoders.gender,
                  Lower(RecordOf(last.session_id).raw_user_input.gender))) =>
           (last.status = 400 /\ last.allowed = diet_label_encoders.gender.classes)

(* C7, as stated: when the diet-prediction step raises for a session with a
   complete stored record, predict_diet answers with success, the diet_plan of
   the response is an error payload, and that payload is the stored
   diet_predictions. *)
C7_FailedDietStepIsPayload ==
    (/\ DietStepReached
     /\ DietTry(RecordOf(last.session_id).processed_features,
                RecordOf(last.session_id).exercise_predictions,
                RecordOf(last.session_id).raw_user_input).raised) =>
        /\ last.status = 200
        /\ Has(Get(last, "diet_plan", EmptyDict), "error")
        /\ RecordOf(last.session_id).diet_predictions = Get(last, "diet_plan", EmptyDict)

----------------------------------------------------------------------------
HasDietHeading(elements) ==
    \E i \in 1..Len(elements) :
        elements[i].kind = "Paragraph" /\ elements[i].text = "Diet Plan:"

HasDietTable(elements) ==
    \E i \in 1..Len(elements) :
        elements[i].kind = "Table" /\ elements[i].section = "diet"

HasDietError(elements) ==
    \E i \in 1..Len(elements) :
        elements[i].kind = "Paragraph" /\ elements[i].text = "Diet Plan Error: "

HasNotGenerated(elements) ==
    \E i \in 1..Len(elements) :
        elements[i].kind = "Paragraph" /\ elements[i].text = "Diet Plan: Not yet generated."

\* generate_report has rendered the record of a session in ExercisePredicted
ReportOfExercisePredicted ==
    /\ last.op = "generate_report" /\ last.status = 200
    /\ SessionState(predictions, last.session_id) = "ExercisePredicted"
    /\ DOMAIN RecordOf(last.session_id).exercise_predictions # {}

(* C8: the report of a session whose record holds an exercise prediction and
   an empty diet_predictions has the paragraph 'Diet Plan: Not yet generated.'
   and no diet heading, no diet table and no diet error paragraph. *)
C8_NotYetGenerated ==
    ReportOfExercisePredicted =>
        /\ HasNotGenerated(last.elements)
        /\ ~HasDietHeading(last.elements)
        /\ ~HasDietTable(last.elements)
        /\ ~HasDietError(last.elements)

\* such a report, made while the other session has its diet plan stored
C8_Witness ==
    /\ ReportOfExercisePredicted
    /\ HasNotGenerated(last.elements)
    /\ \E s \in SessionIds : SessionState(predictions, s) = "DietPredicted"

\* the diet_predictions the rendered record holds, {} when it holds none
RenderedDiet == Get(probe.prediction_record, "diet_predictions", EmptyDict)

Rendered == probe.op = "generate_report"

(* C9: the report of any stored record has exactly one of the diet table, the
   'Diet Plan Error' paragraph and the 'Not yet generated.' paragraph: the
   table when diet_predictions is non-empty without an 'error' key, the error
   paragraph when it is non-empty with an 'error' key, 'Not yet generated.'
   when it is empty or absent. *)
C9_OneDietSection ==
    Rendered =>
        /\ HasDietTable(probe.elements) <=>
              (DOMAIN RenderedDiet # {} /\ ~Has(RenderedDiet, "error"))
        /\ HasDietError(probe.elements) <=>
              (DOMAIN RenderedDiet # {} /\ Has(RenderedDiet, "error"))
        /\ HasNotGenerated(probe.elements) <=> (DOMAIN RenderedDiet = {})
        /\ Cardinality({ k \in {"table", "error", "none"} :
                           \/ k = "table" /\ HasDietTable(probe.elements)
                           \/ k = "error" /\ HasDietError(probe.elements)
                           \/ k = "none" /\ HasNotGenerated(probe.elements) }) = 1

\* the report of a record whose diet_predictions is an error payload
C9_Witness ==
    /\ Rendered
    /\ Has(RenderedDiet, "error")
    /\ HasDietError(probe.elements)
    /\ ~HasDietTable(probe.elements)

----------------------------------------------------------------------------
(* C10, as stated: a predict_exercise or predict_diet whose model call raised
   answers with an error, and none answers with success after its own store
   write raised or was skipped. *)
C10_FailuresSurfaced ==
    /\ (/\ last.op = "predict_exercise" /\ Truthy(multi_clf) /\ Truthy(multi_reg)
        /\ (multi_clf.raises \/ multi_reg.raises)) => last.status # 200
    /\ (/\ last.op = "predict_diet" /\ Truthy(diet_regressor)
        /\ diet_regressor.raises) => last.status # 200
    /\ (last.op \in {"predict_exercise", "predict_diet"} /\ last.status = 200) =>
           last.store_write = "ok"

----------------------------------------------------------------------------
\* a step that serves predict_exercise
ExerciseStep == last'.op = "predict_exercise"

ExerciseNotLoadedDetail == "Exercise models or encoders are not loaded. Server might be misconfigured."
ExercisePredictionDetail == "Error during exercise prediction"

(* C11: predict_exercise answers with the configuration error (500) whenever
   the exercise classifier, regressor or label encoders are unset; a request
   served by a model that raises is never answered with success; and a
   request answered with the configuration error or with the error of the
   model call leaves the collection as it was. *)
C11_ExerciseConfigError ==
    [][ExerciseStep =>
         /\ ~ExerciseReady =>
               (last'.status = 500 /\ Detail(last') = ExerciseNotLoadedDetail)
         /\ (ExerciseReady /\ (multi_clf.raises \/ multi_reg.raises)) =>
               (last'.status # 200 /\ predictions' = predictions)
         /\ Detail(last') \in {ExerciseNotLoadedDetail, ExercisePredictionDetail} =>
               (last'.status = 500 /\ predictions' = predictions)]_vars

\* the model call raised on a request for a session whose stored record, made
\* from another input, is still the stored one
C11_Witness ==
    /\ last.op = "predict_exercise"
    /\ Detail(last) = ExercisePredictionDetail
    /\ HasRecord(last.session_id)
    /\ RecordOf(last.session_id).raw_user_input # last.request
    /\ DOMAIN RecordOf(last.session_id).diet_predictions # {}

----------------------------------------------------------------------------
\* the session ids that have a document in the collection coll
Ids(coll) == {coll[i].session_id : i \in 1..Len(coll)}

DietWrittenFields == {"diet_predictions", "last_updated"}

(* C12: the set of session ids in the collection never shrinks and grows only
   by the session id of a predict_exercise; predict_diet and generate_report
   add none; predict_diet leaves every field of every document as it was,
   except diet_predictions and last_updated of the document of its session. *)
C12_RecordsOnlyByExercise ==
    [][/\ Ids(predictions) \subseteq Ids(predictions')
       /\ Ids(predictions') # Ids(predictions) =>
             /\ last'.op = "predict_exercise"
             /\ Ids(predictions') = Ids(predictions) \cup {last'.session_id}
       /\ last'.op = "predict_diet" =>
             \A s \in Ids(predictions) :
                /\ \A k \in DOMAIN find_one(predictions, s) \ DietWrittenFields :
                      /\ k \in DOMAIN find_one(predictions', s)
                      /\ find_one(predictions', s)[k] = find_one(predictions, s)[k]
                /\ DOMAIN find_one(predictions', s) \subseteq
                      DOMAIN find_one(predictions, s) \cup DietWrittenFields
                /\ s # last'.session_id =>
                      find_one(predictions', s) = find_one(predictions, s)]_vars

\* predict_diet has written its plan into the document of its session while
\* the other session has a document too
C12_Witness ==
    /\ last.op = "predict_diet" /\ last.status = 200 /\ last.store_write = "ok"
    /\ Has(RecordOf(last.session_id), "last_updated")
    /\ RecordOf(last.session_id).diet_predictions = last.diet_plan
    /\ DOMAIN RecordOf(last.session_id).exercise_predictions # {}
    /\ Ids(predictions) = SessionIds

----------------------------------------------------------------------------
\* the number of documents of session id s in the collection
Count(s) == Cardinality({i \in 1..Len(predictions) : predictions[i].session_id = s})

\* both workers have served a predict_exercise for the session id s
BothExercised(s) ==
    \A w \in Workers :
        /\ requests[w].pc = "done"
        /\ requests[w].op = "predict_exercise"
        /\ requests[w].session_id = s

(* C13, as stated: after two concurrent predict_exercise requests for one
   session id the collection holds exactly one document for it, and its
   raw_user_input, processed_features and exercise_predictions are those of
   one of the two requests. *)
C13_ConcurrentExerciseOneRecord ==
    \A s \in SessionIds :
        BothExercised(s) =>
            /\ Count(s) = 1
            /\ \E w \in Workers :
                  /\ RecordOf(s).raw_user_input =
                        requests[w].prediction_record.raw_user_input
                  /\ RecordOf(s).processed_features =
                        requests[w].prediction_record.processed_features
                  /\ RecordOf(s).exercise_predictions =
                        requests[w].prediction_record.exercise_predictions

\* the step in which worker w performs the update_one of predict_diet_plan
DietUpdateStep(w) ==
    /\ requests[w].pc = "update_one" /\ requests[w].op = "predict_diet"
    /\ requests'[w].pc = "done"

(* C14: the update_one of predict_diet writes the plan computed from the
   document it read into the document now stored, whatever predict_exercise
   has written there in between, and leaves the stored processed_features and
   exercise_predictions as they now are. *)
C14_DietWriteUnguarded ==
    [][\A w \in Workers :
          (DietUpdateStep(w) /\ HasRecord(requests[w].session_id)) =>
             /\ find_one(predictions', requests[w].session_id).diet_predictions =
                   requests[w].diet_predictions
             /\ find_one(predictions', requests[w].session_id).exercise_predictions =
                   RecordOf(requests[w].session_id).exercise_predictions
             /\ find_one(predictions', requests[w].session_id).processed_features =
                   RecordOf(requests[w].session_id).processed_features]_vars

\* both requests are answered, and the stored diet_predictions is the plan
\* made from processed_features that predict_exercise has since replaced
C14_Witness ==
    \E w, v \in Workers :
        /\ requests[w].pc = "done" /\ requests[w].op = "predict_diet"
        /\ requests[w].status = 200
        /\ requests[v].pc = "done" /\ requests[v].op = "predict_exercise"
        /\ requests[v].session_id = requests[w].session_id
        /\ Count(requests[w].session_id) = 1
        /\ RecordOf(requests[w].session_id).diet_predictions = requests[w].diet_predictions
        /\ RecordOf(requests[w].session_id).processed_features =
              requests[v].prediction_record.processed_features
        /\ RecordOf(requests[w].session_id).processed_features #
              requests[w].found.processed_features

----------------------------------------------------------------------------
Preprocessed == probe.op = "preprocess_user_data_for_exercise"

\* the stored height times 0.0254, in ten-thousandths of a metre
Metres(height) == (height * 254) \div 1000

\* the square of a height in metres, in ten-thousandths of a square metre
SquareMetres(height) == (Metres(height) * Metres(height)) \div 10000

(* C15: the processed height is in inches (thousandths here): the value times
   0.393701 for cm, times 12 for feet, unchanged for inches; the processed
   weight is in kilograms: the value times 0.453592 for lbs, unchanged for
   kg; the BMI is the weight over the square of the height times 0.0254, to
   the hundredth; 180 cm is about 70.87 in, 80 kg is 80 kg, and 70 kg at
   180 cm has a BMI of about 21.6. *)
C15_UnitNormalizer ==
    Preprocessed =>
        LET data == probe.data
            f == probe.processed_core_features
        IN  /\ data.height_unit = "cm" =>
                  f.height = (data.height_value * 393701) \div 1000
            /\ data.height_unit = "feet" => f.height = data.height_value * 12 * 1000
            /\ data.height_unit = "inches" => f.height = data.height_value * 1000
            /\ data.weight_unit = "lbs" =>
                  f.weight = (data.weight_value * 453592) \div 1000
            /\ data.weight_unit = "kg" => f.weight = data.weight_value * 1000
            /\ f.bmi * SquareMetres(f.height) <= f.weight * 1000
            /\ f.weight * 1000 < (f.bmi + 1) * SquareMetres(f.height)
            /\ (data.height_unit = "cm" /\ data.height_value = 180) =>
                  (f.height >= 70860 /\ f.height <= 70880)
            /\ (data.weight_unit = "kg" /\ data.weight_value = 80) => f.weight = 80000
            /\ (data.height_unit = "cm" /\ data.height_value = 180
                /\ data.weight_unit = "kg" /\ data.weight_value = 70) =>
                  (f.bmi >= 2155 /\ f.bmi <= 2165)

\* 6 feet and 150 lbs: both conversions at work
C15_Witness ==
    /\ Preprocessed
    /\ probe.data.height_unit = "feet" /\ probe.data.height_value = 6
    /\ probe.data.weight_unit = "lbs" /\ probe.data.weight_value = 150
    /\ probe.processed_core_features.height = 72000
    /\ probe.processed_core_features.weight = 68038
    /\ probe.processed_core_features.bmi = 2034

----------------------------------------------------------------------------
(* C16, as stated: the BMI expression never divides by zero; a height that
   resolves to 0 gives the BMI 0; and every height_value > 0, which is what
   the request schema accepts, takes the division branch and divides. *)
C16_NoDivisionByZero ==
    probe.op = "bmi" =>
        /\ probe.outcome # "ZeroDivisionError"
        /\ probe.height_in_meters.m = 0 => probe.outcome = "zero"
        /\ probe.height_value.m > 0 => probe.outcome = "divided"

ReportStep == last'.op = "generate_report"

NoStoreReportDetail == "MongoDB client not initialized. Cannot generate report."
NoPredictionsDetail == "No predictions found for session ID"

(* C17, as stated: generate_report on a session id with no stored record
   answers 404, and generate_report never changes the store. *)
C17_Original ==
    [][ReportStep =>
          /\ predictions' = predictions
          /\ ~HasRecord(last'.session_id) => last'.status = 404]_vars

(* C17, amended: generate_report never changes the store, whatever the state
   of the session (no record, exercise predicted, diet predicted) and whatever
   its answer; on a session id with no stored record it answers not-found
   (404) exactly when the store is initialised and the lookup did not raise,
   and a server error (500) otherwise, and it never answers 404 for a session
   that has a record. *)
C17_ReportReadsOnly ==
    [][ReportStep =>
          /\ predictions' = predictions
          /\ ~HasRecord(last'.session_id) =>
                /\ last'.status \in {404, 500}
                /\ last'.status = 404 =>
                      db # None /\ last'.detail = NoPredictionsDetail
                /\ last'.status = 500 =>
                      \/ last'.detail = NoStoreReportDetail /\ db = None
                      \/ last'.detail = Unhandled.detail /\ db # None
          /\ HasRecord(last'.session_id) => last'.status \in {200, 500}
          /\ db = None => last'.status = 500]_vars

\* not-found for one session id while the store holds the record of another
\* session, diet predictions included
C17_Witness ==
    /\ last.op = "generate_report"
    /\ last.status = 404
    /\ ~HasRecord(last.session_id)
    /\ \E s \in SessionIds : HasRecord(s) /\ Has(RecordOf(s), "diet_predictions")

\* a connection made by a successful connect_to_mongodb and not closed since
Established ==
    /\ mongodb_client.mongo_client # None
    /\ mongodb_client.clients[mongodb_client.mongo_client.client] = "open"

(* C18, as stated: get_db_collection raises whenever no connection is
   established (before any connect_to_mongodb, after one whose ping raised,
   after close_mongodb_connection) and returns a collection only while a
   connection made by a successful connect_to_mongodb is open. *)
C18_RaisesUnlessEstablished ==
    probe.op = "get_db_collection" => (probe.raised <=> ~Established)

\* the diet plan of a response is the output of the diet model
HasPlan(response) ==
    /\ response.op = "predict_diet" /\ response.status = 200
    /\ Has(response.diet_plan, "recommended_calories")

\* the gender column of the frame the diet model was given
FedGender(response) == response.diet_plan.recommended_calories.round2.of.gender

(* C19: whenever the diet encoder set has a gender encoder, the gender fed to
   the diet model by predict_diet is the diet encoder's code of the lower-cased
   raw gender string of the record's raw_user_input, and it is not the code of
   processed_features when the exercise encoder gave the gender another code. *)
C19_GenderReencodedFromRaw ==
    [][(DietStep /\ HasPlan(last') /\ HasDietGenderEncoder) =>
          LET record == RecordOf(last'.session_id)
              code == Transform(diet_label_encoders.gender,
                                Lower(record.raw_user_input.gender))
          IN  /\ FedGender(last') = code
              /\ code # record.processed_features.gender =>
                    FedGender(last') # record.processed_features.gender]_vars

\* the diet model was fed a gender code that differs from the code stored by
\* predict_exercise for the same raw gender
C19_Witness ==
    /\ HasPlan(last)
    /\ HasDietGenderEncoder
    /\ HasRecord(last.session_id)
    /\ FedGender(last) =
          Transform(diet_label_encoders.gender,
                    Lower(RecordOf(last.session_id).raw_user_input.gender))
    /\ FedGender(last) # RecordOf(last.session_id).processed_features.gender

DietInternalErrorDetail == "Could not generate diet plan due to internal error"

(* C20: when the diet encoder set is loaded but has no gender encoder (the key
   is absent or its value is None), the gender fed to the diet model is the
   integer stored in processed_features.gender, and the request is answered
   200 unless the store is unset, the lookup raised, the session has no record
   or the diet model itself raised. *)
C20_GenderFallback ==
    [][(DietStep /\ DietReady /\ ~HasDietGenderEncoder) =>
          /\ HasPlan(last') =>
                FedGender(last') = RecordOf(last'.session_id).processed_features.gender
          /\ (/\ db # None
              /\ HasRecord(last'.session_id)
              /\ Detail(last') # Unhandled.detail
              /\ ~diet_regressor.raises) => HasPlan(last')
          /\ last'.status # 200 =>
                \/ Detail(last') = NoStoreDetail /\ db = None
                \/ Detail(last') = Unhandled.detail /\ db # None
                \/ last'.status = 404 /\ ~HasRecord(last'.session_id)
                \/ Detail(last') = DietInternalErrorDetail /\ diet_regressor.raises]_vars

\* a diet plan computed without a diet gender encoder, from a record whose
\* stored gender code is not 0
C20_Witness ==
    /\ HasPlan(last)
    /\ DietReady /\ ~HasDietGenderEncoder
    /\ HasRecord(last.session_id)
    /\ RecordOf(last.session_id).processed_features.gender = 1
    /\ FedGender(last) = 1

(* C21, as stated: infer_activity_level of main.py, of utils/helpers.py and of
   'project report engines/1API.py' return the same label on every pair of a
   frequency >= 0 and an intensity string, whatever its letter case. *)
C21_ThreeCopiesAgree ==
    probe.op = "infer_activity_levels" =>
        /\ probe.main = probe.helpers
        /\ probe.main = probe.report_engine

\* a step of one of the three request handlers: startup_all leaves last alone,
\* and last is NoResponse until the first request
RequestStep == last'.op \in {"predict_exercise", "predict_diet", "generate_report"}

(* C22: no request handler (predict_exercise, predict_diet, generate_report)
   changes multi_clf, multi_reg, label_encoders, diet_regressor or
   diet_label_encoders; once startup_all has completed their values stay the
   same in every later state. *)
C22_ModelsReadOnly ==
    [][(RequestStep \/ phase = "serving") =>
          /\ multi_clf' = multi_clf
          /\ multi_reg' = multi_reg
          /\ label_encoders' = label_encoders
          /\ diet_regressor' = diet_regressor
          /\ diet_label_encoders' = diet_label_encoders]_vars

\* after a completed startup_all that loaded every artifact, both sessions
\* have been served and the last request, predict_diet, failed in the model
C22_Witness ==
    /\ phase = "serving"
    /\ ExerciseReady /\ DietReady
    /\ \A s \in SessionIds : HasRecord(s)
    /\ last.op = "predict_diet" /\ last.status = 500
    /\ Detail(last) = DietInternalErrorDetail

\* the plan the diet model gives for the fields of one stored record
PlanOf(record) ==
    LET freq == Get(record.exercise_predictions, "frequency_per_week", 0)
        activity == infer_activity_level(freq, record.exercise_predictions.intensity_level)
    IN  DietPlan(DietModelInputData(
            record.processed_features, record.exercise_predictions,
            DietEncodedGender(record.processed_features, Lower(record.raw_user_input.gender)),
            freq, activity))

HasDiet(record) == DOMAIN Get(record, "diet_predictions", EmptyDict) # {}

(* C23: with the requests executed one at a time, in every reachable state a
   record with non-empty diet_predictions holds the output of the diet model
   for the exercise_predictions, processed_features and raw gender stored in
   that same record. *)
C23_DietMatchesExercise ==
    \A i \in 1..Len(predictions) :
        HasDiet(predictions[i]) =>
            /\ Complete(predictions[i])
            /\ predictions[i].diet_predictions = PlanOf(predictions[i])

\* a later predict_exercise for a session with a diet plan answered with a
\* new exercise plan while its store write raised: the record keeps the
\* earlier input together with the diet plan computed from it
C23_Witness ==
    /\ last.op = "predict_exercise" /\ last.status = 200 /\ last.store_write = "raised"
    /\ HasRecord(last.session_id)
    /\ HasDiet(RecordOf(last.session_id))
    /\ RecordOf(last.session_id).raw_user_input # last.request
    /\ RecordOf(last.session_id).diet_predictions = PlanOf(RecordOf(last.session_id))

(* C24: a request with session id s leaves the record of every other session
   id as it was, whether it succeeds or fails, and what it answers is made of
   the record of s alone: the diet plan of predict_diet is the plan for the
   record of s, the report of generate_report renders the record of s, and
   not-found is answered only when s has no record. *)
C24_SessionsIsolated ==
    [][RequestStep =>
          /\ \A s \in SessionIds \ {last'.session_id} :
                find_one(predictions', s) = find_one(predictions, s)
          /\ HasPlan(last') => last'.diet_plan = PlanOf(RecordOf(last'.session_id))
          /\ (last'.op = "generate_report" /\ last'.status = 200) =>
                \E user_details \in UserDetails :
                    last'.elements = Elements(RecordOf(last'.session_id), user_details)
          /\ last'.status = 404 => ~HasRecord(last'.session_id)]_vars

\* predict_diet has filled the record of one session while the record of the
\* other session, made from another input, has no diet plan
C24_Witness ==
    /\ HasPlan(last)
    /\ last.store_write = "ok"
    /\ \A s \in SessionIds : HasRecord(s)
    /\ HasDiet(RecordOf(last.session_id))
    /\ \E s \in SessionIds \ {last.session_id} :
          /\ ~HasDiet(RecordOf(s))
          /\ RecordOf(s).raw_user_input.gender
                # RecordOf(last.session_id).raw_user_input.gender

Checked == probe.op = "predict_diet_checks"

\* the stored record lacks processed_features or exercise_predictions, or
\* holds an empty one
Incomplete(record) ==
    \/ ~Has(record, "processed_features") \/ DOMAIN record.processed_features = {}
    \/ ~Has(record, "exercise_predictions") \/ DOMAIN record.exercise_predictions = {}

NotFoundDietDetail == "No exercise predictions found for session ID"

(* C25, as stated: predict_diet answers the configuration error (500) when
   the diet model or encoders are unset; else a server error (500) when the
   store is uninitialised; else not-found (404) when the record is absent;
   else the incomplete-data error (500) when processed_features or
   exercise_predictions is empty. *)
C25_Original ==
    Checked =>
        IF ~DietReady
        THEN probe.outcome.status = 500 /\ probe.outcome.detail = NotLoadedDetail
        ELSE IF db = None
        THEN probe.outcome.status = 500 /\ probe.outcome.detail = NoStoreDetail
        ELSE IF probe.prediction_record = None
        THEN probe.outcome.status = 404
        ELSE IF Incomplete(probe.prediction_record)
        THEN probe.outcome.status = 500 /\ probe.outcome.detail = IncompleteDetail
        ELSE ~probe.outcome.raised

(* C25, amended: the same order with one more step between the store check
   and the record checks: when the lookup itself raises, the request ends
   with an unhandled server error (500), whether or not a record exists.  A
   diet model that failed to load gives the configuration error for every
   record and for no record at all. *)
C25_PrecheckOrder ==
    Checked =>
        IF ~DietReady
        THEN probe.outcome.status = 500 /\ probe.outcome.detail = NotLoadedDetail
        ELSE IF db = None
        THEN probe.outcome.status = 500 /\ probe.outcome.detail = NoStoreDetail
        ELSE IF probe.find_raises
        THEN probe.outcome = Unhandled
        ELSE IF probe.prediction_record = None
        THEN probe.outcome.status = 404 /\ probe.outcome.detail = NotFoundDietDetail
        ELSE IF Incomplete(probe.prediction_record)
        THEN probe.outcome.status = 500 /\ probe.outcome.detail = IncompleteDetail
        ELSE ~probe.outcome.raised

\* every precondition fails at once (diet model not loaded, store unset, no
\* record) and the configuration error is the answer
C25_Witness ==
    /\ Checked
    /\ diet_regressor = None /\ db = None /\ probe.prediction_record = None
    /\ probe.outcome.status = 500 /\ probe.outcome.detail = NotLoadedDetail

(* C26: infer_activity_level returns 'sedentary' exactly when the frequency
   is 3 or more and the lower-cased intensity is neither 'medium' nor 'high';
   a frequency of 0, 1 or 2 gives 'light' whatever the intensity, and 'very
   active' is returned only for a frequency of 5 or more. *)
C26_SedentaryRow ==
    Inferred =>
        /\ probe.result = "sedentary" <=>
              (probe.freq >= 3 /\ Lower(probe.intensity) \notin {"medium", "high"})
        /\ probe.freq \in {0, 1, 2} => probe.result = "light"
        /\ probe.result = "very active" => probe.freq >= 5

\* the lowest frequency that gives 'sedentary', with an intensity in mixed case
C26_Witness ==
    /\ Inferred
    /\ probe.freq = 3 /\ probe.intensity = "Low"
    /\ probe.result = "sedentary"

\* predict_diet served right after a predict_diet that succeeded for the same
\* session id
RepeatedDietStep ==
    /\ DietStep
    /\ last.op = "predict_diet" /\ last.status = 200
    /\ last'.session_id = last.session_id

WithoutLastUpdated(record) == [k \in DOMAIN record \ {"last_updated"} |-> record[k]]

(* C27, as stated: predict_diet called twice in a row for the same session
   returns the same diet_plan both times and leaves the record equal to the
   one after the first call in every field except last_updated. *)
C27_Original ==
    [][RepeatedDietStep =>
          /\ last'.status = 200
          /\ last'.diet_plan = last.diet_plan
          /\ WithoutLastUpdated(find_one(predictions', last.session_id))
                = WithoutLastUpdated(find_one(predictions, last.session_id))]_vars

(* C27, amended: a second predict_diet in a row for the same session either
   returns the diet_plan of the first, or ends with an unhandled server error
   because the lookup raised, and then leaves the store as it was; when the
   store write of the first call took effect the record after the second
   call equals the one after the first in every field except last_updated,
   and when it had raised, a second call whose write takes effect stores the
   plan that both calls returned. *)
C27_DietIdempotent ==
    [][RepeatedDietStep =>
          /\ last'.status \in {200, 500}
          /\ last'.status = 200 => last'.diet_plan = last.diet_plan
          /\ last'.status = 500 =>
                Detail(last') = Unhandled.detail /\ predictions' = predictions
          /\ last.store_write = "ok" =>
                WithoutLastUpdated(find_one(predictions', last.session_id))
                   = WithoutLastUpdated(find_one(predictions, last.session_id))
          /\ (last.store_write = "raised" /\ last'.status = 200
              /\ last'.store_write = "ok") =>
                find_one(predictions', last.session_id).diet_predictions = last.diet_plan]_vars

\* a predict_diet whose own store write raised has returned the plan that
\* the record already holds from an earlier predict_diet for the session
C27_Witness ==
    /\ HasPlan(last)
    /\ last.store_write = "raised"
    /\ HasRecord(last.session_id)
    /\ HasDiet(RecordOf(last.session_id))
    /\ RecordOf(last.session_id).diet_predictions = last.diet_plan
    /\ Has(RecordOf(last.session_id), "last_updated")

PlanKeys ==
    {"recommended_calories", "protein_grams_per_day", "carbs_grams_per_day",
     "fats_grams_per_day"}

(* C28: in every reachable state the diet_predictions field of a stored
   record is empty or a plan with exactly the four keys recommended_calories,
   protein_grams_per_day, carbs_grams_per_day and fats_grams_per_day; it is
   never a partial plan and never an error payload. *)
C28_DietPlanEmptyOrComplete ==
    \A i \in 1..Len(predictions) :
        /\ Has(predictions[i], "diet_predictions")
        /\ \/ DOMAIN predictions[i].diet_predictions = {}
           \/ DOMAIN predictions[i].diet_predictions = PlanKeys

\* one record with a complete plan next to one whose diet_predictions is
\* empty, after a predict_diet that failed in the diet model
C28_Witness ==
    /\ last.op = "predict_diet" /\ last.status = 500
    /\ Detail(last) = DietInternalErrorDetail
    /\ DietReady
    /\ HasRecord(last.session_id)
    /\ DOMAIN RecordOf(last.session_id).diet_predictions = {}
    /\ \E s \in SessionIds \ {last.session_id} :
          HasRecord(s) /\ DOMAIN RecordOf(s).diet_predictions = PlanKeys

(* C29, as stated: once predict_exercise has returned its success response
   for a session id and with the diet model loaded, the predict_diet that
   follows for that session id answers neither not-found nor incomplete-data,
   also when the store write of predict_exercise raised or the store was not
   initialised. *)
C29_ReadAfterWrite ==
    [][(/\ DietStep
        /\ last.op = "predict_exercise" /\ last.status = 200
        /\ last'.session_id = last.session_id
        /\ DietReady) =>
          /\ last'.status # 404
          /\ Detail(last') # IncompleteDetail]_vars

Predicted == probe.op = "predict_dish_from_image"

RECURSIVE BoxCount(_)
BoxCount(results) ==
    IF results = <<>> THEN 0 ELSE Len(Head(results)) + BoxCount(Tail(results))

(* C30: predict_dish_from_image raises and returns no response when the YOLO
   model failed to load; a response it returns has status 'success' and one
   detection per detected box, its message is 'No known dishes detected in
   the image.' exactly when there is no detection, and the origin,
   description and estimated_calories of a detection are all set when its
   class name is a key of DISH_DATABASE and all None otherwise. *)
C30_DishDetections ==
    Predicted =>
        /\ image_classifier.yolo_model = None => probe.outcome.raised
        /\ ~probe.outcome.raised =>
              /\ probe.outcome.status = "success"
              /\ Len(probe.outcome.detections) = BoxCount(probe.results)
              /\ probe.outcome.message = "No known dishes detected in the image."
                    <=> probe.outcome.detections = <<>>
              /\ \A i \in 1..Len(probe.outcome.detections) :
                    LET d == probe.outcome.detections[i]
                    IN  IF d.class_name \in DishNames
                        THEN /\ d.origin # None
                             /\ d.description # None
                             /\ d.estimated_calories # None
                        ELSE /\ d.origin = None
                             /\ d.description = None
                             /\ d.estimated_calories = None

\* two boxes reported in two Results objects, one of a dish of DISH_DATABASE
\* and one of a class it does not know
C30_Witness ==
    /\ Predicted
    /\ ~probe.outcome.raised
    /\ Len(probe.results) = 2
    /\ Len(probe.outcome.detections) = 2
    /\ probe.outcome.detections[1].class_name = "Burger"
    /\ probe.outcome.detections[1].origin = Str("United States/Germany (disputed)")
    /\ probe.outcome.detections[2].class_name = "Salad"
    /\ probe.outcome.detections[2].origin = None

====
